---------------------------- MODULE Spec2Model ----------------------------
(***************************************************************************)
(* Model of the AIJ-Connect mobile application:                             *)
(*   - limpiar_respuesta_ia and the verdict logic of render_nueva_visita    *)
(*     (src/mobile_app/ui_visita.py),                                       *)
(*   - responder_duda_paciente and _extraer_medicaciones_del_plan           *)
(*     (src/mobile_app/patient_bot.py).                                     *)
(*                                                                         *)
(* Python text is a sequence of one-character strings, so that lower(),     *)
(* strip(), replace() and the `in` substring test are computed as Python    *)
(* computes them.  Python values are tagged records; a call that may raise  *)
(* yields Ret(v) or Raise(e).                                               *)
(***************************************************************************)
EXTENDS Integers, Sequences, FiniteSets, TLC

(***************************************************************************)
(* Text                                                                    *)
(***************************************************************************)

\* str.lower() on one character (the letters the modelled texts use).
LowerChar(c) ==
  CASE c = "A" -> "a" [] c = "B" -> "b" [] c = "C" -> "c" [] c = "D" -> "d"
    [] c = "E" -> "e" [] c = "F" -> "f" [] c = "G" -> "g" [] c = "H" -> "h"
    [] c = "I" -> "i" [] c = "J" -> "j" [] c = "K" -> "k" [] c = "L" -> "l"
    [] c = "M" -> "m" [] c = "N" -> "n" [] c = "O" -> "o" [] c = "P" -> "p"
    [] c = "Q" -> "q" [] c = "R" -> "r" [] c = "S" -> "s" [] c = "T" -> "t"
    [] c = "U" -> "u" [] c = "V" -> "v" [] c = "W" -> "w" [] c = "X" -> "x"
    [] c = "Y" -> "y" [] c = "Z" -> "z"
    [] c = "Á" -> "á" [] c = "É" -> "é" [] c = "Í" -> "í" [] c = "Ó" -> "ó"
    [] c = "Ú" -> "ú" [] c = "Ñ" -> "ñ"
    [] OTHER -> c

\* str.lower()
Lower(s) == [i \in 1..Len(s) |-> LowerChar(s[i])]

\* The characters str.strip() removes.
IsSpace(c) == c \in {" ", "\n", "\t", "\r"}

\* The backquote character (U+0060), which a TLA+ string literal cannot hold.
BT == "backquote"

IsDigit(c) == c \in {"0", "1", "2", "3", "4", "5", "6", "7", "8", "9"}

\* s[i:] begins with k (i is 1-based).
StartsAt(s, k, i) ==
  /\ i >= 1
  /\ i + Len(k) - 1 <= Len(s)
  /\ \A j \in 1..Len(k) : s[i + j - 1] = k[j]

\* k in s
Contains(s, k) == \E i \in 1..(Len(s) - Len(k) + 1) : StartsAt(s, k, i)

\* s.find(k), 1-based; 0 when k does not occur.
Find(s, k) ==
  IF Contains(s, k)
  THEN CHOOSE i \in 1..(Len(s) - Len(k) + 1) :
         /\ StartsAt(s, k, i)
         /\ \A j \in 1..(i - 1) : ~StartsAt(s, k, j)
  ELSE 0

\* any(x in s for x in lista)
ContainsAny(s, lista) == \E n \in 1..Len(lista) : Contains(s, lista[n])

\* s in lista (whole-string membership)
IsOneOf(s, lista) == \E n \in 1..Len(lista) : s = lista[n]

\* str.strip()
RECURSIVE LStrip(_)
LStrip(s) ==
  IF Len(s) > 0 /\ IsSpace(s[1]) THEN LStrip(Tail(s)) ELSE s

RECURSIVE RStrip(_)
RStrip(s) ==
  IF Len(s) > 0 /\ IsSpace(s[Len(s)]) THEN RStrip(SubSeq(s, 1, Len(s) - 1)) ELSE s

Strip(s) == RStrip(LStrip(s))

\* s.replace(old, new) for a non-empty old: left to right, non-overlapping.
RECURSIVE Replace(_, _, _)
Replace(s, old, new) ==
  IF Len(s) = 0 THEN s
  ELSE IF StartsAt(s, old, 1)
       THEN new \o Replace(SubSeq(s, Len(old) + 1, Len(s)), old, new)
       ELSE <<s[1]>> \o Replace(Tail(s), old, new)

\* s.split(sep)[-1]: the text after the last occurrence of sep (all of s if none).
RECURSIVE LastAfter(_, _)
LastAfter(s, sep) ==
  IF Contains(s, sep)
  THEN LastAfter(SubSeq(s, Find(s, sep) + Len(sep), Len(s)), sep)
  ELSE s

\* sep.join(partes)
RECURSIVE Join(_, _)
Join(partes, sep) ==
  IF Len(partes) = 0 THEN <<>>
  ELSE IF Len(partes) = 1 THEN partes[1]
  ELSE partes[1] \o sep \o Join(Tail(partes), sep)

DigitChar(d) ==
  CASE d = 0 -> "0" [] d = 1 -> "1" [] d = 2 -> "2" [] d = 3 -> "3" [] d = 4 -> "4"
    [] d = 5 -> "5" [] d = 6 -> "6" [] d = 7 -> "7" [] d = 8 -> "8" [] d = 9 -> "9"

\* str(n) of a non-negative int
RECURSIVE NatStr(_)
NatStr(n) == IF n < 10 THEN <<DigitChar(n)>> ELSE NatStr(n \div 10) \o <<DigitChar(n % 10)>>

\* str(n) of an int
IntStr(n) == IF n < 0 THEN <<"-">> \o NatStr(0 - n) ELSE NatStr(n)

(***************************************************************************)
(* Python values                                                           *)
(***************************************************************************)

\* A key a dict does not hold / an attribute an object does not have.
Absent == [t |-> "absent"]
PyNone == [t |-> "none"]
PyBool(b) == [t |-> "bool", b |-> b]
PyInt(n) == [t |-> "int", n |-> n]
PyStr(s) == [t |-> "str", s |-> s]
PyList(l) == [t |-> "list", l |-> l]
\* A dict: a function from Keys to the value held, or Absent.
PyDict(d) == [t |-> "dict", d |-> d]
\* An object of the agent's result type: its raw and json_dict attributes.
PyObj(raw, json_dict) == [t |-> "obj", raw |-> raw, json_dict |-> json_dict]

PyTrue == PyBool(TRUE)
PyFalse == PyBool(FALSE)

\* Outcome of a call: a returned value or a raised exception.
Ret(v) == [ok |-> TRUE, val |-> v]
Raise(e) == [ok |-> FALSE, exc |-> e]


\* The keys the modelled dicts may hold: those the code reads, and "otro" for any
\* key it does not know.
Keys ==
  { "estado", "analisis", "auditoria", "decision", "severidad",
    "farmaco", "dosis_mg_kg", "dosis_mg_kg_detectada", "dosis_calculada",
    "frecuencia", "frecuencia_texto", "frecuencia_horas",
    "es_tratamiento_aij", "es_aij", "razon_decision", "razon", "otro" }

\* {}
EmptyDict == [k \in Keys |-> Absent]

\* A dict literal: campos is a record of the keys it holds.
Dict(campos) ==
  PyDict([k \in Keys |-> IF k \in DOMAIN campos THEN campos[k] ELSE Absent])

\* k in obj
HasKey(obj, k) == obj.d[k] # Absent

\* obj.get(k, default); on anything but a dict the attribute lookup fails, which
\* callers test with IsDict first.
GetD(obj, k, default) == IF HasKey(obj, k) THEN obj.d[k] ELSE default

\* obj.get(k)
Get(obj, k) == GetD(obj, k, PyNone)

IsDict(v) == v.t = "dict"
IsStr(v) == v.t = "str"

\* bool(v)
Truthy(v) ==
  CASE v.t = "none" -> FALSE
    [] v.t = "absent" -> FALSE
    [] v.t = "bool" -> v.b
    [] v.t = "int" -> v.n # 0
    [] v.t = "str" -> Len(v.s) > 0
    [] v.t = "list" -> Len(v.l) > 0
    [] v.t = "dict" -> \E k \in Keys : v.d[k] # Absent
    [] OTHER -> TRUE

\* a or b
Or(a, b) == IF Truthy(a) THEN a ELSE b

\* bool(v) for `v is True`: any value that counts as true.
IsTrue_veraz(v) == Truthy(v)

\* v is True
IsTrue(v) == v.t = "bool" /\ v.b

\* The text constants of ui_visita.py.
S_Aprobada == <<"A","p","r","o","b","a","d","a">>
S_Rechazada == <<"R","e","c","h","a","z","a","d","a">>
S_Alerta == <<"A","l","e","r","t","a">>
S_Error == <<"E","r","r","o","r">>
S_Offline == <<"O","f","f","l","i","n","e">>
S_Desconocido == <<"D","e","s","c","o","n","o","c","i","d","o">>
S_NoHayRespuesta == <<"N","o"," ","h","a","y"," ","r","e","s","p","u","e","s","t","a">>
S_NotaDelAsistente == <<"N","o","t","a"," ","d","e","l"," ","A","s","i","s","t","e","n","t","e">>
S_VerTexto == <<"V","e","r"," ","t","e","x","t","o">>
S_Guion == <<"-">>
S_ErrorPrefix == <<"E","r","r","o","r",":"," ">>

(***************************************************************************)
(* limpiar_respuesta_ia (ui_visita.py)                                     *)
(***************************************************************************)

claves_planas ==
  { "farmaco", "dosis_mg_kg", "dosis_mg_kg_detectada", "dosis_calculada",
    "frecuencia", "frecuencia_texto", "frecuencia_horas",
    "es_tratamiento_aij", "es_aij", "razon_decision", "razon" }

\* The record built from a flat tool output (lines 102-128).
SchemaPlano(obj) ==
  LET es_aij0 == Get(obj, "es_aij")
      es_aij == IF es_aij0 = PyNone THEN Get(obj, "es_tratamiento_aij") ELSE es_aij0
      analisis ==
        Dict([ farmaco |-> Get(obj, "farmaco"),
               dosis_calculada |-> Get(obj, "dosis_calculada"),
               dosis_mg_kg_detectada |->
                 GetD(obj, "dosis_mg_kg_detectada", Get(obj, "dosis_mg_kg")),
               frecuencia |-> GetD(obj, "frecuencia", Get(obj, "frecuencia_texto")),
               frecuencia_horas |-> Get(obj, "frecuencia_horas") ])
      auditoria ==
        Dict([ es_aij |-> es_aij,
               es_tratamiento_aij |-> Get(obj, "es_tratamiento_aij"),
               razon |-> GetD(obj, "razon", Get(obj, "razon_decision")),
               razon_decision |-> Get(obj, "razon_decision") ])
      estado0 == Get(obj, "estado")
      estado ==
        IF ~Truthy(estado0)
        THEN (IF IsTrue(es_aij) THEN PyStr(S_Aprobada) ELSE PyStr(S_Alerta))
        ELSE estado0
  IN  Dict([ estado |-> estado,
             analisis |-> analisis,
             auditoria |-> auditoria,
             decision |-> Or(Get(obj, "decision"), Get(obj, "severidad")) ])

\* _normalizar_schema with the test of lines 102 before that of line 93: a flat
\* field makes it reshape whatever other keys the dict holds.
_normalizar_schema_plano_primero(obj) ==
  IF ~IsDict(obj) THEN PyNone
  ELSE IF \E k \in claves_planas : HasKey(obj, k) THEN SchemaPlano(obj)
  ELSE obj

\* _normalizar_schema(obj): PyNone stands for the None it returns on a non-dict.
_normalizar_schema(obj) ==
  IF ~IsDict(obj) THEN PyNone
  ELSE IF HasKey(obj, "analisis") \/ HasKey(obj, "auditoria") \/ HasKey(obj, "estado")
       THEN obj
  ELSE IF \E k \in claves_planas : HasKey(obj, k)
       THEN SchemaPlano(obj)
  ELSE obj

\* "normalizado = _normalizar_schema(x); if normalizado is not None: return
\* normalizado; return x"
NormalizadoO(x) ==
  LET normalizado == _normalizar_schema(x)
  IN  IF normalizado # PyNone THEN normalizado ELSE x

\* The record returned for a None response (line 86).
RegistroSinRespuesta ==
  Dict([ estado |-> PyStr(S_Error),
         analisis |-> PyDict(EmptyDict),
         auditoria |-> Dict([ razon |-> PyStr(S_NoHayRespuesta) ]) ])

\* texto_limpio (line 170): the emphasis marker, then the json fence, then the
\* bare fence are removed, and the result is stripped.
TextoLimpio(texto_raw) ==
  Strip(Replace(Replace(Replace(texto_raw, <<"*","*">>, <<>>),
                        <<BT, BT, BT, "j", "s", "o", "n">>, <<>>),
                <<BT, BT, BT>>, <<>>))

\* The emergency fallback record (lines 171-181).
RegistroFallback(texto_limpio) ==
  Dict([ estado |-> PyStr(S_NotaDelAsistente),
         analisis |-> Dict([ farmaco |-> PyStr(S_VerTexto),
                             dosis_calculada |-> PyStr(S_Guion) ]),
         auditoria |-> Dict([ es_aij |-> PyNone, razon |-> PyStr(texto_limpio) ]) ])
\* The text of a key.
KeyText(k) ==
  CASE k = "estado" -> <<"e","s","t","a","d","o">>
    [] k = "analisis" -> <<"a","n","a","l","i","s","i","s">>
    [] k = "auditoria" -> <<"a","u","d","i","t","o","r","i","a">>
    [] k = "decision" -> <<"d","e","c","i","s","i","o","n">>
    [] k = "severidad" -> <<"s","e","v","e","r","i","d","a","d">>
    [] k = "farmaco" -> <<"f","a","r","m","a","c","o">>
    [] k = "dosis_mg_kg" -> <<"d","o","s","i","s","_","m","g","_","k","g">>
    [] k = "dosis_mg_kg_detectada" -> <<"d","o","s","i","s","_","m","g","_","k","g","_","d","e","t","e","c","t","a","d","a">>
    [] k = "dosis_calculada" -> <<"d","o","s","i","s","_","c","a","l","c","u","l","a","d","a">>
    [] k = "frecuencia" -> <<"f","r","e","c","u","e","n","c","i","a">>
    [] k = "frecuencia_texto" -> <<"f","r","e","c","u","e","n","c","i","a","_","t","e","x","t","o">>
    [] k = "frecuencia_horas" -> <<"f","r","e","c","u","e","n","c","i","a","_","h","o","r","a","s">>
    [] k = "es_tratamiento_aij" -> <<"e","s","_","t","r","a","t","a","m","i","e","n","t","o","_","a","i","j">>
    [] k = "es_aij" -> <<"e","s","_","a","i","j">>
    [] k = "razon_decision" -> <<"r","a","z","o","n","_","d","e","c","i","s","i","o","n">>
    [] k = "razon" -> <<"r","a","z","o","n">>
    [] k = "otro" -> <<"o","t","r","o">>

\* The order in which a dict's keys are written out (Python keeps insertion
\* order, which the model does not record).
KeyOrder ==
  << "estado",
     "analisis",
     "auditoria",
     "decision",
     "severidad",
     "farmaco",
     "dosis_mg_kg",
     "dosis_mg_kg_detectada",
     "dosis_calculada",
     "frecuencia",
     "frecuencia_texto",
     "frecuencia_horas",
     "es_tratamiento_aij",
     "es_aij",
     "razon_decision",
     "razon",
     "otro" >>

\* The keys obj holds, in KeyOrder.
KeysOf(obj) == SelectSeq(KeyOrder, LAMBDA k : obj.d[k] # Absent)

\* The text str() gives for an object of the agent's result type that defines no
\* text of its own.
S_ReprObj == <<"<","C","r","e","w","O","u","t","p","u","t"," ","o","b","j","e","c","t",">">>

\* repr(v)
RECURSIVE PyRepr(_)
PyRepr(v) ==
  CASE v.t = "none" -> <<"N","o","n","e">>
    [] v.t = "bool" -> (IF v.b THEN <<"T","r","u","e">> ELSE <<"F","a","l","s","e">>)
    [] v.t = "int" -> IntStr(v.n)
    [] v.t = "str" -> <<"'">> \o v.s \o <<"'">>
    [] v.t = "list" ->
         <<"[">> \o Join([i \in 1..Len(v.l) |-> PyRepr(v.l[i])], <<","," ">>) \o <<"]">>
    [] v.t = "dict" ->
         <<"{">> \o Join([i \in 1..Len(KeysOf(v)) |->
                           <<"'">> \o KeyText(KeysOf(v)[i]) \o <<"'", ":", " ">>
                             \o PyRepr(v.d[KeysOf(v)[i]])], <<","," ">>) \o <<"}">>
    [] OTHER -> S_ReprObj

\* str(v)
PyToStr(v) == IF v.t = "str" THEN v.s ELSE PyRepr(v)

\* json.dumps(v, ensure_ascii=False)
RECURSIVE JsonDumps(_)
JsonDumps(v) ==
  CASE v.t = "none" -> <<"n","u","l","l">>
    [] v.t = "bool" -> (IF v.b THEN <<"t","r","u","e">> ELSE <<"f","a","l","s","e">>)
    [] v.t = "int" -> IntStr(v.n)
    [] v.t = "str" ->
         <<"\"">> \o Replace(Replace(v.s, <<"\\">>, <<"\\", "\\">>), <<"\"">>, <<"\\", "\"">>)
           \o <<"\"">>
    [] v.t = "list" ->
         <<"[">> \o Join([i \in 1..Len(v.l) |-> JsonDumps(v.l[i])], <<","," ">>) \o <<"]">>
    [] v.t = "dict" ->
         <<"{">> \o Join([i \in 1..Len(KeysOf(v)) |->
                           <<"\"">> \o KeyText(KeysOf(v)[i]) \o <<"\"", ":", " ">>
                             \o JsonDumps(v.d[KeysOf(v)[i]])], <<","," ">>) \o <<"}">>
    [] OTHER -> S_ReprObj

\* Lines 149-181: repair_json's outcome rep on texto_raw, then the fallback.  The
\* except clause absorbs a raise of repair_json; texto_raw.replace is outside it
\* and fails on anything but text.
LimpiarTexto(texto_raw, rep) ==
  IF rep.ok /\ rep.val.t = "list" /\ Len(rep.val.l) > 0
  THEN Ret(NormalizadoO(rep.val.l[1]))
  ELSE IF rep.ok /\ IsDict(rep.val)
  THEN Ret(NormalizadoO(rep.val))
  ELSE IF IsStr(texto_raw)
  THEN Ret(RegistroFallback(TextoLimpio(texto_raw.s)))
  ELSE Raise("AttributeError")

\* limpiar_respuesta_ia(respuesta_obj), with rep the outcome of its repair_json
\* call (used only when the call is reached).
limpiar_respuesta_ia(respuesta_obj, rep) ==
  IF respuesta_obj = PyNone
  THEN Ret(RegistroSinRespuesta)
  ELSE IF IsDict(respuesta_obj)
  THEN Ret(NormalizadoO(respuesta_obj))
  ELSE IF respuesta_obj.t = "obj" /\ respuesta_obj.raw # Absent
  THEN LimpiarTexto(respuesta_obj.raw, rep)
  ELSE IF respuesta_obj.t = "obj" /\ Truthy(respuesta_obj.json_dict)
  THEN Ret(NormalizadoO(respuesta_obj.json_dict))
  ELSE LimpiarTexto(PyStr(PyToStr(respuesta_obj)), rep)

(***************************************************************************)
(* The verdict logic of render_nueva_visita (ui_visita.py, lines 478-540)  *)
(***************************************************************************)

\* _coerce_text(value, default): a Python value (default may be None).
_coerce_text(value, default) ==
  IF value = PyNone THEN default
  ELSE IF value.t \in {"dict", "list"} THEN PyStr(JsonDumps(value))
  ELSE PyStr(PyToStr(value))

palabras ==
  << <<"c","o","n","t","r","a","i","n","d">>, <<"c","o","n","t","r","a","i","n","d","i","c","a","d">>, <<"n","o"," ","i","n","d","i","c","a","d","o">>, <<"n","o"," ","i","n","d","i","c","a","d","a">>,
     <<"n","o"," ","r","e","c","o","m","e","n","d","a","d","o">>, <<"n","o"," ","r","e","c","o","m","e","n","d","a","d","a">>, <<"n","o"," ","u","s","a","r">>, <<"n","o"," ","s","e"," ","r","e","c","o","m","i","e","n","d","a">>,
     <<"t","o","x","i","c">>, <<"t","o","x","i","c","i","d","a","d">>, <<"s","o","b","r","e","d","o","s">>, <<"s","o","b","r","e","d","o","s","i","s">>, <<"d","o","s","i","s"," ","a","l","t","a">>,
     <<"d","o","s","i","s"," ","e","x","c","e","s","i","v","a">>, <<"e","x","c","e","s","o">>, <<"e","x","c","e","s","i","v","a">> >>

\* _es_rechazo_por_texto(razon_texto), razon_texto a text value
_es_rechazo_por_texto(razon_texto) ==
  LET texto == Lower(Or(razon_texto, PyStr(<<>>)).s)
  IN  ContainsAny(texto, palabras)

\* es_valido with the two flags tested for truth where the code has `is True`.
es_valido_truthy(res, auditoria) ==
  \/ GetD(res, "estado", PyStr(S_Desconocido)) = PyStr(S_Aprobada)
  \/ Truthy(Get(auditoria, "es_tratamiento_aij"))
  \/ Truthy(Get(auditoria, "es_aij"))

\* es_valido (lines 505-508), for a dict res with a dict auditoria
es_valido(res, auditoria) ==
  \/ GetD(res, "estado", PyStr(S_Desconocido)) = PyStr(S_Aprobada)
  \/ IsTrue(Get(auditoria, "es_tratamiento_aij"))
  \/ IsTrue(Get(auditoria, "es_aij"))

\* decision_txt (lines 510-511)
decision_txt(res, auditoria) ==
  LET decision_raw ==
        Or(Or(Get(res, "decision"), Get(res, "severidad")), Get(auditoria, "decision"))
  IN  Lower(Strip(_coerce_text(decision_raw, PyStr(<<>>)).s))

\* razon_texto (lines 525-531)
razon_texto(res, auditoria) ==
  _coerce_text(Or(Or(Or(Or(Get(auditoria, "razon_decision"), Get(auditoria, "razon")),
                       Get(res, "razon_decision")),
                    Get(res, "razon")),
                 PyStr(<<>>)),
              PyStr(S_Guion))

\* decision with es_valido tested before the decision text.
Decision_valido_primero(res, auditoria) ==
  LET txt == decision_txt(res, auditoria)
  IN  IF es_valido(res, auditoria) THEN S_Aprobada
      ELSE IF Contains(txt, <<"a","p","r","o","b">>) THEN S_Aprobada
      ELSE IF Contains(txt, <<"r","e","c","h">>) THEN S_Rechazada
      ELSE IF Contains(txt, <<"a","l","e","r","t">>) THEN S_Alerta
      ELSE IF _es_rechazo_por_texto(razon_texto(res, auditoria)) THEN S_Rechazada
      ELSE S_Alerta

\* decision (lines 513-532), for a dict res with a dict auditoria
Decision(res, auditoria) ==
  LET txt == decision_txt(res, auditoria)
  IN  IF Contains(txt, <<"a","p","r","o","b">>) THEN S_Aprobada
      ELSE IF Contains(txt, <<"r","e","c","h">>) THEN S_Rechazada
      ELSE IF Contains(txt, <<"a","l","e","r","t">>) THEN S_Alerta
      ELSE IF es_valido(res, auditoria) THEN S_Aprobada
      ELSE IF _es_rechazo_por_texto(razon_texto(res, auditoria)) THEN S_Rechazada
      ELSE S_Alerta

\* Lines 500-540 on res = ia_resultado_cache: the verdict whose title is shown, or
\* the AttributeError of a .get on a value that is no dict (res itself at line 500,
\* auditoria at line 507).
Veredicto(res) ==
  IF ~IsDict(res) THEN Raise("AttributeError")
  ELSE LET auditoria == GetD(res, "auditoria", PyDict(EmptyDict))
       IN  IF ~IsDict(auditoria) THEN Raise("AttributeError")
           ELSE Ret(Decision(res, auditoria))

T_aprobada == <<"a","p","r","o","b","a","d","a">>
T_true == <<"t","r","u","e">>
T_rechazada == <<"r","e","c","h","a","z","a","d","a">>
T_APROBADA == <<"A","P","R","O","B","A","D","A">>
T_Alerta_media == <<" ","A","l","e","r","t","a"," ","m","e","d","i","a"," ">>
T_pendiente == <<"p","e","n","d","i","e","n","t","e">>
T_aprobada_antes_rechazada == <<"a","p","r","o","b","a","d","a",","," ","a","n","t","e","s"," ","r","e","c","h","a","z","a","d","a">>
T_alerta_rechazar == <<"a","l","e","r","t","a",":"," ","r","e","c","h","a","z","a","r">>
T_Rechazo == <<"R","e","c","h","a","z","o">>
T_alerta_alta == <<"a","l","e","r","t","a"," ","a","l","t","a">>
T_dosis_excesiva_detectada == <<"d","o","s","i","s"," ","e","x","c","e","s","i","v","a"," ","d","e","t","e","c","t","a","d","a">>
T_Dosis_correcta == <<"D","o","s","i","s"," ","c","o","r","r","e","c","t","a">>
T_CONTRAINDICADO_en_menores == <<"C","O","N","T","R","A","I","N","D","I","C","A","D","O"," ","e","n"," ","m","e","n","o","r","e","s">>
T_no_recomendado == <<"n","o"," ","r","e","c","o","m","e","n","d","a","d","o">>
T_sin_auditoria == <<"s","i","n"," ","a","u","d","i","t","o","r","i","a">>
T_MTX_15_mg == <<"M","T","X"," ","1","5"," ","m","g">>
T_Metotrexato == <<"M","e","t","o","t","r","e","x","a","t","o">>
T_0_5 == <<"0",".","5">>
T_toxicidad_hepatica == <<"t","o","x","i","c","i","d","a","d"," ","h","e","p","a","t","i","c","a">>
T_Ibuprofeno == <<"I","b","u","p","r","o","f","e","n","o">>
T_x == <<"x">>
T_qqqjson_n_bad_json == <<BT,BT,BT,"j","s","o","n","\n","{","b","a","d"," ","j","s","o","n">>
T_xxNotaxx_revisar_dosis_excesiva_n == <<" ","*","*","N","o","t","a","*","*",":"," ","r","e","v","i","s","a","r"," ","d","o","s","i","s"," ","e","x","c","e","s","i","v","a"," ","\n">>
T_estado_Aprobada == <<"{","\"","e","s","t","a","d","o","\"",":"," ","\"","A","p","r","o","b","a","d","a","\"","}">>
T_1_2 == <<"[","1",","," ","2","]">>
T_qqqjson_qqq_xx == <<BT,BT,BT,"j","s","o","n"," ",BT,BT,BT," ","*","*"," ">>
T_no_usar == <<"n","o"," ","u","s","a","r">>
T_llaves == <<"{","}">>
T_farmaco == <<"f","a","r","m","a","c","o">>
T_bad_json == <<"b","a","d"," ","j","s","o","n">>

(***************************************************************************)
(* The values the advisory agent and repair_json are modelled to produce    *)
(***************************************************************************)

\* Sample texts.

\* Longest list repair_json is modelled to return.
MaxLista == 2

Estados ==
  { Absent, PyNone, PyStr(<<>>), PyStr(S_Aprobada), PyStr(S_Alerta),
    PyStr(T_aprobada) }

\* Values of the AIJ-relevance flags: absent, null, booleans, truthy non-booleans.
Flags == { Absent, PyNone, PyTrue, PyFalse, PyStr(T_true), PyInt(1) }

Decisiones ==
  { Absent, PyNone, PyStr(<<>>), PyStr(T_rechazada), PyStr(T_APROBADA),
    PyStr(T_Alerta_media), PyStr(T_pendiente),
    PyStr(T_aprobada_antes_rechazada), PyStr(T_alerta_rechazar),
    PyList(<<PyStr(T_Rechazo)>>) }

Severidades == { Absent, PyStr(T_rechazada), PyStr(T_alerta_alta) }

Razones ==
  { Absent, PyStr(T_dosis_excesiva_detectada), PyStr(T_Dosis_correcta),
    PyStr(T_CONTRAINDICADO_en_menores) }

\* auditoria as a dict
AuditoriasDict ==
  { Dict([ es_aij |-> a, es_tratamiento_aij |-> b, razon |-> r, razon_decision |-> rd,
           decision |-> d ]) :
      a \in {Absent, PyNone, PyTrue, PyFalse, PyStr(T_true)},
      b \in {Absent, PyTrue, PyFalse},
      r \in Razones,
      rd \in {Absent, PyStr(T_no_recomendado)},
      d \in {Absent, PyStr(T_rechazada)} }

\* auditoria missing, null, or no dict at all
AuditoriasRaras == { Absent, PyNone, PyStr(T_sin_auditoria), PyList(<<>>) }

Analisis ==
  { Absent, PyNone, PyStr(T_MTX_15_mg), PyDict(EmptyDict),
    Dict([ farmaco |-> PyStr(T_Metotrexato), dosis_mg_kg |-> PyStr(T_0_5) ]) }

\* Records holding at least one of estado / analisis / auditoria.
DictsCanonicos ==
  ( { Dict([ estado |-> e, auditoria |-> au, decision |-> d, severidad |-> sv ]) :
      e \in Estados, au \in AuditoriasDict \cup AuditoriasRaras,
      d \in {Absent, PyStr(T_rechazada), PyStr(T_pendiente)},
      sv \in {Absent} }
  \cup
  { Dict([ estado |-> e, auditoria |-> au, decision |-> d, severidad |-> sv,
           razon |-> r ]) :
      e \in {Absent, PyStr(S_Aprobada), PyStr(S_Alerta)},
      au \in { Absent, PyDict(EmptyDict), Dict([ es_aij |-> PyTrue ]) },
      d \in Decisiones, sv \in Severidades,
      r \in {Absent, PyStr(T_toxicidad_hepatica)} }
  \cup
  { Dict([ estado |-> e, analisis |-> an, auditoria |-> au, farmaco |-> f, es_aij |-> a ]) :
      e \in {Absent, PyStr(S_Aprobada)}, an \in Analisis,
      au \in { Absent, PyNone, Dict([ es_aij |-> PyFalse ]) },
      f \in {Absent, PyStr(T_Ibuprofeno)}, a \in {Absent, PyTrue} } )
  \ {PyDict(EmptyDict)}

\* Flat tool outputs: none of estado / analisis / auditoria, some flat field.
DictsPlanos ==
  { x \in
      { Dict([ farmaco |-> f, es_aij |-> a, es_tratamiento_aij |-> b, razon |-> r,
               razon_decision |-> rd, decision |-> d, severidad |-> sv,
               dosis_mg_kg |-> dk, dosis_mg_kg_detectada |-> dd ]) :
          f \in {Absent, PyStr(T_Metotrexato)}, a \in Flags, b \in Flags,
          r \in {Absent, PyStr(T_dosis_excesiva_detectada)},
          rd \in {Absent, PyStr(T_Dosis_correcta)},
          d \in {Absent, PyStr(T_rechazada)}, sv \in {Absent, PyStr(T_alerta_alta)},
          dk \in {Absent, PyStr(T_0_5)}, dd \in {Absent, PyNone} } :
      \E k \in claves_planas : HasKey(x, k) }

\* Dicts of a shape the normalizer does not know.
DictsOtros ==
  { PyDict(EmptyDict), Dict([ otro |-> PyInt(1) ]),
    Dict([ decision |-> PyStr(T_rechazada) ]),
    Dict([ otro |-> PyStr(T_x), severidad |-> PyStr(T_alerta_alta) ]) }

Dicts == DictsCanonicos \cup DictsPlanos \cup DictsOtros

\* Texts of the agent.
Textos ==
  { <<>>, T_qqqjson_n_bad_json, T_xxNotaxx_revisar_dosis_excesiva_n,
    T_estado_Aprobada, T_1_2, T_qqqjson_qqq_xx }

\* A few dicts, one of each shape, for the places where a dict is one case of many.
DictsMuestra ==
  { PyDict(EmptyDict),
    Dict([ estado |-> PyStr(S_Aprobada) ]),
    Dict([ auditoria |-> PyNone ]),
    Dict([ estado |-> PyStr(S_Alerta), analisis |-> PyDict(EmptyDict),
           auditoria |-> Dict([ es_aij |-> PyNone,
                                razon |-> PyStr(T_dosis_excesiva_detectada) ]) ]),
    Dict([ farmaco |-> PyStr(T_Metotrexato), es_aij |-> PyTrue ]),
    Dict([ es_tratamiento_aij |-> PyStr(T_true), razon |-> PyStr(T_no_usar) ]),
    Dict([ otro |-> PyInt(1) ]) }

\* Objects of the agent's result type.
Objetos ==
  { PyObj(r, PyNone) : r \in {PyNone} \cup { PyStr(x) : x \in Textos } }
  \cup
  { PyObj(Absent, j) :
      j \in {Absent, PyNone, PyList(<<PyInt(1)>>), PyStr(T_llaves)} \cup DictsMuestra }

\* Values that are neither None, a dict nor such an object.
Otros ==
  { PyStr(x) : x \in Textos } \cup { PyInt(1), PyTrue, PyList(<<>>), PyList(<<PyInt(1)>>) }

\* Every respuesta_obj the model hands to limpiar_respuesta_ia.
Respuestas == {PyNone} \cup Dicts \cup Objetos \cup Otros

\* Elements of a list repair_json returns.
Elementos == { PyNone, PyInt(1), PyStr(T_farmaco) } \cup DictsMuestra

\* Sequences over S of length 0..n.
SeqsUpTo(S, n) == UNION { [1..m -> S] : m \in 0..n }

\* What repair_json(texto, return_objects=True) may do: raise, or return an empty
\* text, a scalar, a list or a dict.
RepairOutcomes ==
  { Raise("ValueError"), Ret(PyStr(<<>>)), Ret(PyInt(1)), Ret(PyStr(T_bad_json)) }
  \cup { Ret(PyList(l)) : l \in SeqsUpTo(Elementos, MaxLista) }
  \cup { Ret(d) : d \in DictsMuestra }

\* The outcome recorded where repair_json is not called.
NoCall == [ok |-> FALSE, exc |-> "no call"]

\* Whether limpiar_respuesta_ia(respuesta_obj) reaches its repair_json call.
LlegaARepair(respuesta_obj) ==
  /\ respuesta_obj # PyNone
  /\ ~IsDict(respuesta_obj)
  /\ ~(respuesta_obj.t = "obj" /\ respuesta_obj.raw = Absent
         /\ Truthy(respuesta_obj.json_dict))

RepairOutcomesFor(respuesta_obj) ==
  IF LlegaARepair(respuesta_obj) THEN RepairOutcomes ELSE {NoCall}

T_NoneType_object_has_no_attribute_replace == <<"'","N","o","n","e","T","y","p","e","'"," ","o","b","j","e","c","t"," ","h","a","s"," ","n","o"," ","a","t","t","r","i","b","u","t","e"," ","'","r","e","p","l","a","c","e","'">>
T_timed_out == <<"t","i","m","e","d"," ","o","u","t">>
T_id == <<"'","i","d","'">>

(***************************************************************************)
(* State                                                                   *)
(***************************************************************************)

VARIABLES
  \* limpiar_respuesta_ia called on its own, and again on its own output
  n_pc,                  \* "idle", "una" (called once), "dos" (called on its output)
  n_entrada,             \* respuesta_obj of the first call
  n_rep,                 \* what repair_json does in the first call
  n_salida,              \* outcome of the first call
  n_salida2,             \* outcome of the call on the first call's output
  \* render_nueva_visita, step 2 (st.session_state and what the run rendered)
  IA_DISPONIBLE,         \* ui_visita.py, lines 62-66: set at import
  ia_validacion_hecha,   \* st.session_state.ia_validacion_hecha
  ia_resultado_cache,    \* st.session_state.ia_resultado_cache
  e_agente,              \* what ejecutar_validacion_medica does for this visit's plan
  e_rep,                 \* what repair_json does on the agent's text
  v_evento,              \* the click the last run of the script handled
  v_agente,              \* outcome of ejecutar_validacion_medica in the last Validate click
  v_limpieza,            \* outcome of limpiar_respuesta_ia in the last Validate click
  v_veredicto,           \* outcome of the verdict logic in the last run of the script
  v_dosis,               \* dosis_txt as the card of the last run showed it
  modo_visita,           \* st.session_state.modo_visita: a visit is open
  efectos_visita,        \* st.session_state.efectos_visita
  h_anadidos,            \* the forms "Añadir efecto adverso" appended in this visit, in order
  v_guardar,             \* what guardar_paciente and guardar_historial did in the last run
  v_visita,              \* nueva_visita as the last run handed it to guardar_historial
  visita_step,           \* st.session_state.visita_step
  temp_visita_data,      \* st.session_state.temp_visita_data
  plan_final,            \* st.session_state.plan_final: the text area "Plan detallado"
  v_plan,                \* plan_input as the last Validate click handed it to the agent
  \* responder_duda_paciente in a chat session
  b_pc,                  \* "espera" (waiting for a question), "respondida"
  RAG_DISPONIBLE,        \* patient_bot.py, lines 37-46: set at import
  vectorstore_cache,     \* st.session_state.vectorstore_cache
  b_pregunta,            \* arguments of the last call
  b_historial,
  b_nombre,
  b_cargar,              \* what cargar_conocimiento did in the last call, if called
  b_consultar,           \* what consultar_rag did in the last call, if called
  b_respuesta,           \* outcome of the last call
  b_llamadas,            \* the collaborator calls the last call made, in order
  b_cargas,              \* how many times the session has called cargar_conocimiento
  \* _extraer_medicaciones_del_plan called on its own
  x_pc,                  \* "idle", "hecho" (called)
  x_plan_texto,          \* plan_texto of the call
  x_medicaciones,        \* outcome of the call
  \* render_alta_paciente (st.session_state and what the last run did)
  HOMUNCULO_OK,          \* ui_alta.py, lines 32-36: set at import
  reset_alta,            \* st.session_state.reset_alta
  nuevo_nhc,             \* st.session_state.nuevo_nhc (text input "NHC")
  nuevo_nombre,          \* st.session_state.nuevo_nombre (text input "Nombre")
  historia_uveitis,      \* st.session_state.historia_uveitis (toggle)
  val_ana,               \* the radio of the marker ANAs
  art_afectadas,         \* st.session_state.art_afectadas
  a_evento,              \* what the last run of the script handled
  a_error,               \* the st.error message of the last run, if any
  a_guardar,             \* what cargar_pacientes and guardar_paciente did in the last run
  a_pdata,               \* pdata as the last run handed it to guardar_paciente
  \* check_password and cerrar_sesion (st.session_state and what the last run did)
  password_correct,      \* st.session_state["password_correct"], Absent when not set
  username,              \* st.session_state["username"], Absent when not held
  password,              \* st.session_state["password"], Absent when not held
  u_pc,                  \* "espera" (the page waits), "rerun" (a script run is due)
  u_evento,              \* what the user did last
  u_formulario,          \* the last run of check_password rendered the login form
  u_retorno              \* what the last run of check_password returned

vars_norm == <<n_pc, n_entrada, n_rep, n_salida, n_salida2>>
vars_visita ==
  <<IA_DISPONIBLE, ia_validacion_hecha, ia_resultado_cache, e_agente, e_rep, v_evento,
    v_agente, v_limpieza, v_veredicto, v_dosis, modo_visita, efectos_visita, h_anadidos, v_guardar,
    v_visita, visita_step, temp_visita_data, plan_final, v_plan>>
vars_bot ==
  <<b_pc, RAG_DISPONIBLE, vectorstore_cache, b_pregunta, b_historial, b_nombre, b_cargar,
    b_consultar, b_respuesta, b_llamadas, b_cargas, x_pc, x_plan_texto, x_medicaciones>>
vars_alta ==
  <<HOMUNCULO_OK, reset_alta, nuevo_nhc, nuevo_nombre, historia_uveitis, val_ana,
    art_afectadas, a_evento, a_error, a_guardar, a_pdata>>
vars_auth ==
  <<password_correct, username, password, u_pc, u_evento, u_formulario, u_retorno>>
vars == <<vars_norm, vars_visita, vars_bot, vars_alta, vars_auth>>

\* No call of limpiar_respuesta_ia on its own.
NormQuieto ==
  /\ n_pc = "idle"
  /\ n_entrada = PyNone
  /\ n_rep = NoCall
  /\ n_salida = NoCall
  /\ n_salida2 = NoCall

\* The argument of the call, and what repair_json will do on it.
InitNorm ==
  /\ n_pc = "idle"
  /\ n_entrada \in Respuestas
  /\ n_rep \in RepairOutcomesFor(n_entrada)
  /\ n_salida = NoCall
  /\ n_salida2 = NoCall

\* No question asked yet (lines 49-50: the cache of a new session is None).
ChatNuevo ==
  /\ b_pc = "espera"
  /\ vectorstore_cache = PyNone
  /\ b_pregunta = <<>>
  /\ b_historial = PyNone
  /\ b_nombre = <<>>
  /\ b_cargar = NoCall
  /\ b_consultar = NoCall
  /\ b_respuesta = NoCall
  /\ b_llamadas = <<>>
  /\ b_cargas = 0

\* No call of _extraer_medicaciones_del_plan on its own.
ExtractorQuieto ==
  /\ x_pc = "idle"
  /\ x_plan_texto = <<>>
  /\ x_medicaciones = NoCall

\* No chat in course.
BotQuieto == RAG_DISPONIBLE = TRUE /\ ChatNuevo /\ ExtractorQuieto

\* The fields of temp_visita_data the model keeps (lines 336-344).
CamposPaso1 == {"anamnesis", "eva", "eva_paciente"}

\* Line 190: {}
DatosVacios == [k \in CamposPaso1 |-> Absent]

\* Lines 336-344: the step-1 data of the model's visits.
DatosPaso1 ==
  [anamnesis |-> PyStr(<<"b","i","e","n">>), eva |-> PyInt(2), eva_paciente |-> PyInt(3)]

\* Lines 189-193 and 428-429: the session state of the first visit of a session
\* when "Siguiente Paso" (lines 335-346) has brought it to step 2.
SesionNueva ==
  /\ modo_visita = TRUE
  /\ visita_step = 2
  /\ temp_visita_data = DatosPaso1
  /\ plan_final = <<>>
  /\ v_plan = NoCall
  /\ ia_validacion_hecha = FALSE
  /\ ia_resultado_cache = PyNone
  /\ efectos_visita = <<>>
  /\ h_anadidos = <<>>
  /\ v_evento = "inicio"
  /\ v_agente = NoCall
  /\ v_limpieza = NoCall
  /\ v_veredicto = NoCall
  /\ v_dosis = NoCall
  /\ v_guardar = <<NoCall, NoCall>>
  /\ v_visita = NoCall

\* ui_alta.py: radio options of the immunological markers (lines 208-210) and
\* the form as a reset leaves it (lines 63-82).
T_Negativo == <<"N","e","g","a","t","i","v","o"," ","(","-",")">>
T_Positivo_mas == <<"P","o","s","i","t","i","v","o"," ","(","+",")">>

FormularioVacio ==
  /\ nuevo_nhc = <<>>
  /\ nuevo_nombre = <<>>
  /\ historia_uveitis = FALSE
  /\ val_ana = T_Negativo
  /\ art_afectadas = {}

\* No intake in course.
AltaQuieta ==
  /\ HOMUNCULO_OK = TRUE
  /\ reset_alta = FALSE
  /\ FormularioVacio
  /\ a_evento = "inicio"
  /\ a_error = <<>>
  /\ a_guardar = <<NoCall, NoCall>>
  /\ a_pdata = NoCall

\* The first run of check_password in a session (auth.py, lines 61-91): no
\* password_correct yet, the form rendered with its two empty inputs.
PrimeraVisita ==
  /\ password_correct = Absent
  /\ username = PyStr(<<>>)
  /\ password = PyStr(<<>>)
  /\ u_pc = "espera"
  /\ u_evento = "inicio"
  /\ u_formulario = TRUE
  /\ u_retorno = FALSE

\* Nobody at the login page.
AuthQuieta == PrimeraVisita

(***************************************************************************)
(* limpiar_respuesta_ia as a function: one call, then a call on its output  *)
(***************************************************************************)

Limpiar ==
  /\ n_pc = "idle"
  /\ n_salida' = limpiar_respuesta_ia(n_entrada, n_rep)
  /\ n_pc' = "una"
  /\ UNCHANGED <<n_entrada, n_rep, n_salida2>>
  /\ UNCHANGED <<vars_visita, vars_bot, vars_alta, vars_auth>>

Relimpiar ==
  /\ n_pc = "una"
  /\ n_salida.ok
  /\ \E rep \in RepairOutcomesFor(n_salida.val) :
       n_salida2' = limpiar_respuesta_ia(n_salida.val, rep)
  /\ n_pc' = "dos"
  /\ UNCHANGED <<n_entrada, n_rep, n_salida>>
  /\ UNCHANGED <<vars_visita, vars_bot, vars_alta, vars_auth>>

NextNorm == Limpiar \/ Relimpiar

\* No visit in course.
VisitaQuieta ==
  /\ IA_DISPONIBLE = TRUE
  /\ e_agente = NoCall
  /\ e_rep = NoCall
  /\ SesionNueva

InitSpecNorm == InitNorm /\ VisitaQuieta /\ BotQuieto /\ AltaQuieta /\ AuthQuieta

SpecNorm == InitSpecNorm /\ [][NextNorm]_vars

(***************************************************************************)
(* render_nueva_visita, step 2: Validate, the verdict card, Edit            *)
(***************************************************************************)

\* What ejecutar_validacion_medica may do: return any value, or raise.
AgentOutcomes ==
  { Ret(x) : x \in Respuestas } \cup { Raise("TimeoutError"), Raise("KeyError") }

\* str(e) of the exceptions the model raises.
ExcText(e) ==
  CASE e = "AttributeError" -> T_NoneType_object_has_no_attribute_replace
    [] e = "TimeoutError" -> T_timed_out
    [] e = "KeyError" -> T_id
    [] OTHER -> <<>>

\* The record the except clause stores (lines 470-474).
RegistroError(e) ==
  Dict([ estado |-> PyStr(S_Error),
         analisis |-> PyDict(EmptyDict),
         auditoria |-> Dict([ es_aij |-> PyNone,
                              razon |-> PyStr(S_ErrorPrefix \o ExcText(e)) ]) ])

\* No record at all in place of the degraded one.
RegistroOffline_nulo == PyNone

\* The record stored when the agent is not available (line 476).
RegistroOffline == Dict([ estado |-> PyStr(S_Offline) ])

\* The try block with limpiar_respuesta_ia called after it: its exception leaves
\* the cache as the session began it.
CacheTrasValidar_sin_try(ag, lim) ==
  IF ~ag.ok THEN RegistroError(ag.exc)
  ELSE IF ~lim.ok THEN PyNone
  ELSE lim.val

\* Lines 466-474: the try block around the agent call and its normalization.
\* ag is the agent's outcome, lim that of limpiar_respuesta_ia on its result.
CacheTrasValidar(ag, lim) ==
  IF ~ag.ok THEN RegistroError(ag.exc)
  ELSE IF ~lim.ok THEN RegistroError(lim.exc)
  ELSE lim.val

\* Lines 478-540 in one run of the script: the verdict card is rendered when
\* ia_validacion_hecha is set.
VeredictoDelRun(hecha, cache) == IF hecha THEN Veredicto(cache) ELSE NoCall

\* Lines 543-575 read analisis with .get: the card renders when analisis is a dict.
TarjetaOk(res) == IsDict(GetD(res, "analisis", PyDict(EmptyDict)))

S_mg_kg == <<"m","g","/","k","g">>

\* Lines 554-556 without lower(): the unit is looked for as it is written.
ConSufijo_sin_lower(dosis_txt) ==
  IF Truthy(dosis_txt) /\ ~Contains(dosis_txt.s, S_mg_kg)
  THEN PyStr(dosis_txt.s \o <<" ">> \o S_mg_kg)
  ELSE dosis_txt

\* Lines 554-556: the suffix goes on a text that does not name the unit.
ConSufijo(dosis_txt) ==
  IF Truthy(dosis_txt) /\ ~Contains(Lower(dosis_txt.s), S_mg_kg)
  THEN PyStr(dosis_txt.s \o <<" ">> \o S_mg_kg)
  ELSE dosis_txt

\* Lines 557-558: the text of dosis_calc when there is no text yet.
ODosisCalc(dosis_txt, dosis_calc) ==
  IF ~Truthy(dosis_txt) THEN _coerce_text(dosis_calc, PyStr(S_Guion)) ELSE dosis_txt

\* Lines 549-550 and 554-558
DosisDe(dosis_mg_kg, dosis_calc) ==
  ODosisCalc(ConSufijo(_coerce_text(dosis_mg_kg, PyNone)), dosis_calc)

\* dosis_txt of the card (lines 549-558) for the record res and its analisis.
DosisTxt(res, analisis) ==
  DosisDe(Or(Get(analisis, "dosis_mg_kg"),
             Or(Get(analisis, "dosis_mg_kg_detectada"),
                Or(Get(res, "dosis_mg_kg"), Get(res, "dosis_mg_kg_detectada")))),
          Or(Get(analisis, "dosis_calculada"), Get(res, "dosis_calculada")))

\* Lines 543-558 in one run of the script: the card shows a dose when the run
\* reaches it, that is when the verdict logic before it and the reads of analisis
\* do not raise.
DosisDelRun(hecha, cache) ==
  IF hecha /\ Veredicto(cache).ok /\ TarjetaOk(cache)
  THEN Ret(DosisTxt(cache, GetD(cache, "analisis", PyDict(EmptyDict))).s)
  ELSE NoCall

\* The run reached the buttons under the card (lines 577-582).
BotonesVisibles ==
  /\ ia_validacion_hecha
  /\ v_veredicto.ok
  /\ TarjetaOk(ia_resultado_cache)

\* A click on "Validar" (lines 461-476) and the rest of that run.
ClickValidar ==
  /\ modo_visita /\ visita_step = 2
  /\ v_evento' = "validar"
  /\ ia_validacion_hecha' = TRUE
  /\ \/ /\ IA_DISPONIBLE
        /\ LET lim == IF e_agente.ok THEN limpiar_respuesta_ia(e_agente.val, e_rep)
                                      ELSE NoCall
           IN  /\ v_agente' = e_agente
               /\ v_limpieza' = lim
               /\ ia_resultado_cache' = CacheTrasValidar(e_agente, lim)
     \/ /\ ~IA_DISPONIBLE
        /\ v_agente' = NoCall
        /\ v_limpieza' = NoCall
        /\ ia_resultado_cache' = RegistroOffline
  /\ v_plan' = IF IA_DISPONIBLE THEN Ret(plan_final) ELSE NoCall
  /\ v_veredicto' = VeredictoDelRun(TRUE, ia_resultado_cache')
  /\ v_dosis' = DosisDelRun(TRUE, ia_resultado_cache')
  /\ UNCHANGED <<IA_DISPONIBLE, e_agente, e_rep>>
  /\ v_guardar' = <<NoCall, NoCall>>
  /\ v_visita' = NoCall
  /\ UNCHANGED <<modo_visita, efectos_visita, h_anadidos, visita_step, temp_visita_data,
                 plan_final>>
  /\ UNCHANGED <<vars_norm, vars_bot, vars_alta, vars_auth>>

\* A click on "Editar" (lines 578-580) and the run st.rerun() starts.
ClickEditar ==
  /\ modo_visita /\ visita_step = 2
  /\ BotonesVisibles
  /\ v_evento' = "editar"
  /\ ia_validacion_hecha' = FALSE
  /\ v_veredicto' = VeredictoDelRun(FALSE, ia_resultado_cache)
  /\ v_dosis' = DosisDelRun(FALSE, ia_resultado_cache)
  /\ UNCHANGED <<IA_DISPONIBLE, e_agente, e_rep, ia_resultado_cache, v_agente, v_limpieza>>
  /\ v_guardar' = <<NoCall, NoCall>>
  /\ v_visita' = NoCall
  /\ UNCHANGED <<modo_visita, efectos_visita, h_anadidos, visita_step, temp_visita_data,
                 plan_final, v_plan>>
  /\ UNCHANGED <<vars_norm, vars_bot, vars_alta, vars_auth>>

(***************************************************************************)
(* render_nueva_visita, step 2: adverse effects and the save                *)
(***************************************************************************)

\* Options of the select boxes (lines 401-406, 412, 418 and 425).
T_MTX_Metotrexato == <<"M","T","X","/","M","e","t","o","t","r","e","x","a","t","o">>
T_AINEs == <<"A","I","N","E","s">>
T_Otro == <<"O","t","r","o">>
T_Nauseas_Vomitos == <<"N","á","u","s","e","a","s","/","V","ó","m","i","t","o","s">>
T_Cefalea == <<"C","e","f","a","l","e","a">>
T_Otro_especificar == <<"O","t","r","o"," ","(","e","s","p","e","c","i","f","i","c","a","r",")">>
T_Leve == <<"L","e","v","e">>
T_Moderado == <<"M","o","d","e","r","a","d","o">>
T_Grave == <<"G","r","a","v","e">>
T_tras_la_dosis == <<"t","r","a","s"," ","l","a"," ","d","o","s","i","s">>
T_mareo == <<"m","a","r","e","o">>

\* date.today().strftime("%Y-%m-%d") on the days of the model.
T_2024_05_01 == <<"2","0","2","4","-","0","5","-","0","1">>
T_2024_05_02 == <<"2","0","2","4","-","0","5","-","0","2">>
Fechas == { T_2024_05_01, T_2024_05_02 }

\* The form under "Efectos Adversos" as a click finds it (lines 410-425), with the
\* day of the click.  With "Otro" no effect can be selected (lines 414-419).
Formulario(fecha, tipo_med, efectos_sel, descripcion_efecto, gravedad) ==
  [ fecha |-> fecha, tipo_med |-> tipo_med, efectos_sel |-> efectos_sel,
    descripcion_efecto |-> descripcion_efecto, gravedad |-> gravedad ]

Formularios ==
  { Formulario(T_2024_05_01, T_MTX_Metotrexato, <<T_Nauseas_Vomitos, T_Cefalea>>, <<>>, T_Leve),
    Formulario(T_2024_05_01, T_MTX_Metotrexato, <<T_Cefalea>>, T_tras_la_dosis, T_Grave),
    Formulario(T_2024_05_02, T_AINEs, <<T_Otro_especificar>>, T_mareo, T_Leve),
    Formulario(T_2024_05_02, T_Otro, <<>>, T_mareo, T_Moderado),
    Formulario(T_2024_05_01, T_Otro, <<>>, <<>>, T_Leve) }

\* The longest list of adverse effects of the model.
MaxEfectos == 2

\* The entry without the free-text description.
nuevo_efecto_sin_descripcion(f) ==
  [ fecha |-> f.fecha, medicacion |-> f.tipo_med, efectos |-> f.efectos_sel,
    descripcion |-> <<>>, gravedad |-> f.gravedad ]

\* Lines 432-438: nuevo_efecto built from the form f.
nuevo_efecto(f) ==
  [ fecha |-> f.fecha, medicacion |-> f.tipo_med, efectos |-> f.efectos_sel,
    descripcion |-> f.descripcion_efecto, gravedad |-> f.gravedad ]

\* Line 431: the click appends only when an effect is selected or described.
HayEfecto(f) == f.efectos_sel # <<>> \/ f.descripcion_efecto # <<>>

\* Lines 431-440: the list after a click on the form f.
ConEfecto(lista, f) == IF HayEfecto(f) THEN Append(lista, nuevo_efecto(f)) ELSE lista

\* A click on "Añadir efecto adverso" (lines 430-441) and the rest of that run.
ClickAnadir ==
  /\ modo_visita /\ visita_step = 2
  /\ Len(efectos_visita) < MaxEfectos
  /\ \E f \in Formularios :
       /\ efectos_visita' = ConEfecto(efectos_visita, f)
       /\ h_anadidos' = IF HayEfecto(f) THEN Append(h_anadidos, f) ELSE h_anadidos
  /\ v_evento' = "anadir"
  /\ v_veredicto' = VeredictoDelRun(ia_validacion_hecha, ia_resultado_cache)
  /\ v_dosis' = DosisDelRun(ia_validacion_hecha, ia_resultado_cache)
  /\ v_guardar' = <<NoCall, NoCall>>
  /\ v_visita' = NoCall
  /\ UNCHANGED <<IA_DISPONIBLE, e_agente, e_rep, ia_validacion_hecha, ia_resultado_cache,
                 v_agente, v_limpieza, modo_visita, visita_step, temp_visita_data,
                 plan_final, v_plan>>
  /\ UNCHANGED <<vars_norm, vars_bot, vars_alta, vars_auth>>

\* Contents of the text area "Plan detallado" (line 459).
Planes == { <<>>, T_MTX_15_mg }

\* The user edits the text area "Plan detallado" (line 459), which step 2 renders
\* with or without the card, and the script runs again.
EscribirPlan ==
  /\ modo_visita /\ visita_step = 2
  /\ \E texto \in Planes : texto # plan_final /\ plan_final' = texto
  /\ v_evento' = "plan"
  /\ v_veredicto' = VeredictoDelRun(ia_validacion_hecha, ia_resultado_cache)
  /\ v_dosis' = DosisDelRun(ia_validacion_hecha, ia_resultado_cache)
  /\ v_guardar' = <<NoCall, NoCall>>
  /\ v_visita' = NoCall
  /\ UNCHANGED <<IA_DISPONIBLE, e_agente, e_rep, ia_validacion_hecha, ia_resultado_cache,
                 v_agente, v_limpieza, modo_visita, efectos_visita, h_anadidos, visita_step,
                 temp_visita_data, v_plan>>
  /\ UNCHANGED <<vars_norm, vars_bot, vars_alta, vars_auth>>

\* The lines of curso between the date and the plan (line 603), for the step-1
\* data of the model.
T_datos_del_curso ==
  <<"P","E","S","O",":"," ","3","0",".","0","k","g"," ","|"," ","B","S","A",":"," ","1",".","0",
      "5","m","²","\n","E","V","A",":"," ","2","/","1","0"," ","(","m","é","d","i","c","o",")",
      " ","|"," ","3","/","1","0"," ","(","p","a","c","i","e","n","t","e",")","\n","A","N","A",
      "M","N","E","S","I","S",":"," ","b","i","e","n","\n","E","X","P","L","O","R","A","C","I",
      "Ó","N",":"," ","R","o","d","i","l","l","a"," ","D">>
T_FECHA == <<"F","E","C","H","A",":"," ">>
T_PLAN == <<"\n","P","L","A","N",":"," ">>
T_Seguimiento == <<"S","e","g","u","i","m","i","e","n","t","o">>

\* Line 603
Curso(fecha_hoy, plan_input) ==
  T_FECHA \o fecha_hoy \o <<"\n">> \o T_datos_del_curso \o T_PLAN \o plan_input

\* The visit record with a null audit.
nueva_visita_sin_auditoria(fecha_hoy, plan_input, cache, efectos) ==
  [ fecha |-> fecha_hoy, tipo |-> T_Seguimiento, plan_tratamiento |-> plan_input,
    curso_clinico_generado |-> Curso(fecha_hoy, plan_input), auditoria_ia |-> PyNone,
    efectos_adversos |-> efectos ]

\* Lines 623-633: nueva_visita.  The fields copied from the step-1 data (anamnesis,
\* datos_basicos, exploracion, analitica, eva_paciente, documentos_adjuntos) are
\* not part of the model.
nueva_visita(fecha_hoy, plan_input, cache, efectos) ==
  [ fecha |-> fecha_hoy, tipo |-> T_Seguimiento, plan_tratamiento |-> plan_input,
    curso_clinico_generado |-> Curso(fecha_hoy, plan_input), auditoria_ia |-> cache,
    efectos_adversos |-> efectos ]

\* What guardar_paciente (line 606) and guardar_historial (line 634) may do: the
\* first raises, the second raises, both return.
GuardarOutcomes ==
  { <<Raise("OSError"), NoCall>>, <<Ret(PyNone), Raise("OSError")>>,
    <<Ret(PyNone), Ret(PyNone)>> }

\* A click on "CONFIRMAR Y GUARDAR" (lines 582-642).  The run renders the card
\* again before it reaches the button; the visit closes when both calls return.
ClickGuardar ==
  /\ modo_visita /\ visita_step = 2
  /\ BotonesVisibles
  /\ \E fecha_hoy \in Fechas, g \in GuardarOutcomes :
       /\ v_guardar' = g
       /\ v_visita' = IF g[1].ok
                      THEN Ret(nueva_visita(fecha_hoy, plan_final, ia_resultado_cache,
                                            efectos_visita))
                      ELSE NoCall
       /\ modo_visita' = ~(g[1].ok /\ g[2].ok)
  /\ v_evento' = "guardar"
  /\ v_veredicto' = VeredictoDelRun(ia_validacion_hecha, ia_resultado_cache)
  /\ v_dosis' = DosisDelRun(ia_validacion_hecha, ia_resultado_cache)
  /\ UNCHANGED <<IA_DISPONIBLE, e_agente, e_rep, ia_validacion_hecha, ia_resultado_cache,
                 v_agente, v_limpieza, efectos_visita, h_anadidos, visita_step,
                 temp_visita_data, plan_final, v_plan>>
  /\ UNCHANGED <<vars_norm, vars_bot, vars_alta, vars_auth>>

\* A click on "Atrás" (lines 643-646), offered at step 2 while no validation is
\* shown, and the run st.rerun() starts: step 1, which does not render the text
\* area, so that the framework may drop its text or keep it.
ClickAtras ==
  /\ modo_visita /\ visita_step = 2
  /\ ~ia_validacion_hecha
  /\ visita_step' = 1
  /\ \E texto \in {plan_final, <<>>} : plan_final' = texto
  /\ v_evento' = "atras"
  /\ v_veredicto' = NoCall
  /\ v_dosis' = NoCall
  /\ v_guardar' = <<NoCall, NoCall>>
  /\ v_visita' = NoCall
  /\ UNCHANGED <<IA_DISPONIBLE, e_agente, e_rep, ia_validacion_hecha, ia_resultado_cache,
                 v_agente, v_limpieza, modo_visita, efectos_visita, h_anadidos,
                 temp_visita_data, v_plan>>
  /\ UNCHANGED <<vars_norm, vars_bot, vars_alta, vars_auth>>

\* A click on "Siguiente Paso" (lines 335-346) and the run st.rerun() starts.
ClickSiguiente ==
  /\ modo_visita /\ visita_step = 1
  /\ temp_visita_data' = DatosPaso1
  /\ visita_step' = 2
  /\ v_evento' = "siguiente"
  /\ v_veredicto' = VeredictoDelRun(ia_validacion_hecha, ia_resultado_cache)
  /\ v_dosis' = DosisDelRun(ia_validacion_hecha, ia_resultado_cache)
  /\ v_guardar' = <<NoCall, NoCall>>
  /\ v_visita' = NoCall
  /\ UNCHANGED <<IA_DISPONIBLE, e_agente, e_rep, ia_validacion_hecha, ia_resultado_cache,
                 v_agente, v_limpieza, modo_visita, efectos_visita, h_anadidos, plan_final,
                 v_plan>>
  /\ UNCHANGED <<vars_norm, vars_bot, vars_alta, vars_auth>>

\* A click on the cancel button of step 1 (lines 207-211).  The five keys it
\* deletes are next read by lines 189-193 of the next run of
\* render_nueva_visita, which give them their defaults: they hold the defaults
\* from here on.  efectos_visita is not among them.
ClickCancelar ==
  /\ modo_visita /\ visita_step = 1
  /\ modo_visita' = FALSE
  /\ visita_step' = 1
  /\ temp_visita_data' = DatosVacios
  /\ ia_validacion_hecha' = FALSE
  /\ ia_resultado_cache' = PyNone
  /\ v_evento' = "cancelar"
  /\ v_veredicto' = NoCall
  /\ v_dosis' = NoCall
  /\ v_guardar' = <<NoCall, NoCall>>
  /\ v_visita' = NoCall
  /\ UNCHANGED <<IA_DISPONIBLE, e_agente, e_rep, v_agente, v_limpieza, efectos_visita,
                 h_anadidos, plan_final, v_plan>>
  /\ UNCHANGED <<vars_norm, vars_bot, vars_alta, vars_auth>>

\* The next visit opened in the session after a save or a cancel:
\* render_nueva_visita finds the keys of the session state in place (lines
\* 189-193 and 428 set only the missing ones; lines 636-642 delete none of
\* them).  The runs between the two visits did not render the text area, so
\* that the framework may have dropped its text or kept it.
AbrirVisita ==
  /\ ~modo_visita
  /\ modo_visita' = TRUE
  /\ h_anadidos' = <<>>
  /\ v_evento' = "abrir"
  /\ v_guardar' = <<NoCall, NoCall>>
  /\ v_visita' = NoCall
  /\ v_veredicto' = VeredictoDelRun(ia_validacion_hecha, ia_resultado_cache)
  /\ v_dosis' = DosisDelRun(ia_validacion_hecha, ia_resultado_cache)
  /\ UNCHANGED <<IA_DISPONIBLE, e_agente, e_rep, ia_validacion_hecha, ia_resultado_cache,
                 v_agente, v_limpieza, efectos_visita, visita_step, temp_visita_data,
                 v_plan>>
  /\ \E texto \in {plan_final, <<>>} : plan_final' = texto
  /\ UNCHANGED <<vars_norm, vars_bot, vars_alta, vars_auth>>

NextVisita == ClickValidar \/ ClickEditar

\* The agent is importable or not; when it is, what it and repair_json will do.
InitVisita ==
  /\ IA_DISPONIBLE \in BOOLEAN
  /\ e_agente \in (IF IA_DISPONIBLE THEN AgentOutcomes ELSE {NoCall})
  /\ e_rep \in (IF e_agente.ok THEN RepairOutcomesFor(e_agente.val) ELSE {NoCall})
  /\ SesionNueva

InitSpecVisita == NormQuieto /\ InitVisita /\ BotQuieto /\ AltaQuieta /\ AuthQuieta

SpecVisita == InitSpecVisita /\ [][NextVisita]_vars

(***************************************************************************)
(* Step 2 with the adverse-effect form, over a sample of agent answers      *)
(***************************************************************************)

\* What ejecutar_validacion_medica and repair_json do in these visits, one case
\* of each kind: a canonical record, a flat record, a record with a null
\* auditoria, a text repair_json fails on, a text it parses to a list of numbers,
\* and an agent that raises.
AgentesMuestra ==
  { <<Ret(Dict([ estado |-> PyStr(S_Alerta), analisis |-> PyDict(EmptyDict),
                 auditoria |-> Dict([ es_aij |-> PyNone,
                                      razon |-> PyStr(T_dosis_excesiva_detectada) ]) ])),
      NoCall>>,
    <<Ret(Dict([ farmaco |-> PyStr(T_Metotrexato), es_aij |-> PyTrue ])), NoCall>>,
    <<Ret(Dict([ estado |-> PyStr(S_Alerta), auditoria |-> PyNone ])), NoCall>>,
    <<Ret(PyObj(PyStr(T_xxNotaxx_revisar_dosis_excesiva_n), PyNone)), Raise("ValueError")>>,
    <<Ret(PyObj(PyStr(T_1_2), PyNone)), Ret(PyList(<<PyInt(1), PyInt(1)>>))>>,
    <<Raise("TimeoutError"), NoCall>> }

InitEfectos ==
  /\ IA_DISPONIBLE \in BOOLEAN
  /\ \E a \in (IF IA_DISPONIBLE THEN AgentesMuestra ELSE {<<NoCall, NoCall>>}) :
       e_agente = a[1] /\ e_rep = a[2]
  /\ SesionNueva

NextEfectos ==
  \/ ClickAnadir
  \/ ClickValidar
  \/ ClickEditar
  \/ EscribirPlan
  \/ ClickGuardar
  \/ ClickAtras
  \/ ClickSiguiente
  \/ ClickCancelar
  \/ AbrirVisita

InitSpecEfectos == NormQuieto /\ InitEfectos /\ BotQuieto /\ AltaQuieta /\ AuthQuieta

SpecEfectos == InitSpecEfectos /\ [][NextEfectos]_vars

(***************************************************************************)
(* Claims on limpiar_respuesta_ia (SpecNorm)                               *)
(***************************************************************************)

ClavesCanonicas == {"estado", "analisis", "auditoria"}

\* C1: whatever the input and whatever repair_json does, limpiar_respuesta_ia
\* returns a record that holds estado, analisis and auditoria, each non-null.
C1_ClavesNoNulas ==
  n_pc # "idle" =>
    /\ n_salida.ok
    /\ IsDict(n_salida.val)
    /\ \A k \in ClavesCanonicas : HasKey(n_salida.val, k) /\ n_salida.val.d[k] # PyNone

\* C2: limpiar_respuesta_ia never raises and always returns a record (a dict).
C2_SiempreRegistro ==
  n_pc # "idle" => n_salida.ok /\ IsDict(n_salida.val)

\* C8: limpiar_respuesta_ia is idempotent: called on its own output it returns
\* that output unchanged.
C8_Idempotente ==
  n_pc = "dos" => n_salida2 = n_salida

(***************************************************************************)
(* Claims on the Validate click and the verdict (SpecVisita)               *)
(***************************************************************************)

Veredictos == {S_Aprobada, S_Rechazada, S_Alerta}

\* C3: whenever ia_validacion_hecha is set, the verdict logic on the cached
\* record yields exactly one of Aprobada / Rechazada / Alerta and does not raise.
C3_VeredictoSinExcepcion ==
  ia_validacion_hecha => v_veredicto.ok /\ v_veredicto.val \in Veredictos

\* The decision / severidad text of a record, lower-cased: decision, or severidad
\* when decision is empty.
TextoDecisionSeveridad(res) ==
  Lower(_coerce_text(Or(Get(res, "decision"), Get(res, "severidad")), PyStr(<<>>)).s)

\* The same with auditoria.decision as the third place looked at.
TextoDecisionCompleto(res) ==
  Lower(_coerce_text(Or(Or(Get(res, "decision"), Get(res, "severidad")),
                        Get(GetD(res, "auditoria", PyDict(EmptyDict)), "decision")),
                     PyStr(<<>>)).s)

K_aprob == <<"a","p","r","o","b">>
K_rech == <<"r","e","c","h">>
K_alert == <<"a","l","e","r","t">>

\* C4: when the verdict logic gives a verdict for a record whose decision /
\* severidad text contains "aprob", "rech" or "alert", the verdict is Aprobada,
\* Rechazada or Alerta respectively, the substrings tested in that order and
\* case-insensitively, whatever estado, es_tratamiento_aij and es_aij say.
C4_DecisionExplicitaManda ==
  LET res == ia_resultado_cache
      txt == TextoDecisionSeveridad(res)
  IN  (ia_validacion_hecha /\ v_veredicto.ok) =>
        /\ Contains(txt, K_aprob) => v_veredicto.val = S_Aprobada
        /\ (~Contains(txt, K_aprob) /\ Contains(txt, K_rech)) =>
             v_veredicto.val = S_Rechazada
        /\ (~Contains(txt, K_aprob) /\ ~Contains(txt, K_rech) /\ Contains(txt, K_alert)) =>
             v_veredicto.val = S_Alerta

\* C4's case: estado "Aprobada" with decision "rechazada" was classified Rechazada.
C4_Witness ==
  /\ ia_validacion_hecha
  /\ IsDict(ia_resultado_cache)
  /\ Get(ia_resultado_cache, "estado") = PyStr(S_Aprobada)
  /\ Get(ia_resultado_cache, "decision") = PyStr(T_rechazada)
  /\ v_veredicto = Ret(S_Rechazada)

NingunaCoincide(txt) ==
  ~Contains(txt, K_aprob) /\ ~Contains(txt, K_rech) /\ ~Contains(txt, K_alert)

\* The approval inferred from estado and the two flags.
AprobacionInferida(res) ==
  LET auditoria == GetD(res, "auditoria", PyDict(EmptyDict))
  IN  \/ Get(res, "estado") = PyStr(S_Aprobada)
      \/ Get(auditoria, "es_tratamiento_aij") = PyTrue
      \/ Get(auditoria, "es_aij") = PyTrue

\* The justification text, lower-cased: the first non-empty of
\* auditoria.razon_decision, auditoria.razon, razon_decision, razon.
Justificacion(res) ==
  LET auditoria == GetD(res, "auditoria", PyDict(EmptyDict))
      cands == << Get(auditoria, "razon_decision"), Get(auditoria, "razon"),
                  Get(res, "razon_decision"), Get(res, "razon") >>
      llenos == SelectSeq(cands, Truthy)
  IN  IF Len(llenos) = 0 THEN <<>> ELSE Lower(_coerce_text(llenos[1], PyStr(<<>>)).s)

\* The verdict the claim states when no decision text matches.
VeredictoInferido(res) ==
  IF AprobacionInferida(res) THEN S_Aprobada
  ELSE IF ContainsAny(Justificacion(res), palabras) THEN S_Rechazada
  ELSE S_Alerta

\* C5 as claimed: when the verdict logic gives a verdict for a record whose
\* decision / severidad text matches none of the three substrings, the verdict is
\* Aprobada iff estado is "Aprobada" or one of the two flags is exactly true;
\* otherwise Rechazada on a rejection keyword in the justification text, else
\* Alerta.
C5_SinDecisionNiSeveridad ==
  LET res == ia_resultado_cache
  IN  (ia_validacion_hecha /\ v_veredicto.ok
         /\ NingunaCoincide(TextoDecisionSeveridad(res))) =>
        v_veredicto.val = VeredictoInferido(res)

\* C5 amended: the same, the decision text being the first non-empty of decision,
\* severidad and auditoria.decision.
C5_SinTextoDeDecision ==
  LET res == ia_resultado_cache
  IN  (ia_validacion_hecha /\ v_veredicto.ok
         /\ NingunaCoincide(TextoDecisionCompleto(res))) =>
        v_veredicto.val = VeredictoInferido(res)

\* C5's case: estado "Alerta", es_aij null and "dosis excesiva detectada" as razon,
\* with no decision text anywhere, was classified Rechazada.
C5_Witness ==
  /\ ia_validacion_hecha
  /\ v_veredicto = Ret(S_Rechazada)
  /\ Get(ia_resultado_cache, "estado") = PyStr(S_Alerta)
  /\ HasKey(ia_resultado_cache, "auditoria")
  /\ ia_resultado_cache.d["auditoria"].d["es_aij"] = PyNone
  /\ Get(ia_resultado_cache.d["auditoria"], "razon") = PyStr(T_dosis_excesiva_detectada)
  /\ NingunaCoincide(TextoDecisionCompleto(ia_resultado_cache))

\* C9: when the Validate click runs with the agent available and the agent call or
\* the normalization of its result raises, the cache holds the Error record with
\* the error text and ia_validacion_hecha is set.
C9_ErrorAbsorbido ==
  (v_evento = "validar" /\ IA_DISPONIBLE /\ (~v_agente.ok \/ ~v_limpieza.ok)) =>
    /\ ia_validacion_hecha
    /\ ia_resultado_cache =
         Dict([ estado |-> PyStr(S_Error),
                analisis |-> PyDict(EmptyDict),
                auditoria |->
                  Dict([ es_aij |-> PyNone,
                         razon |-> PyStr(S_ErrorPrefix \o
                                     ExcText(IF ~v_agente.ok THEN v_agente.exc
                                             ELSE v_limpieza.exc)) ]) ])

\* C9's case: the agent returned and limpiar_respuesta_ia raised on its result.
C9_Witness ==
  /\ v_evento = "validar"
  /\ IA_DISPONIBLE
  /\ v_agente.ok
  /\ v_limpieza = Raise("AttributeError")
  /\ Get(ia_resultado_cache, "estado") = PyStr(S_Error)

(***************************************************************************)
(* _extraer_medicaciones_del_plan (patient_bot.py)                         *)
(*                                                                         *)
(* A character outside Latin-1 (an emoji, the bullet) is one element of the *)
(* text, written "U+" and its code point.                                   *)
(***************************************************************************)

\* medicamentos_info (lines 75-108), in the order of the dict.
medicamentos_info ==
  << [ nombre |-> <<"M","e","t","o","t","r","e","x","a","t","o">>,
       variantes |-> << <<"m","e","t","o","t","r","e","x","a","t","o">>,
                       <<"m","e","t","o","t","r","e","x","a","t","e">>,
                       <<"m","t","x">> >>,
       emoji |-> <<"U+1F489">> ],
     [ nombre |-> <<"Á","c","i","d","o"," ","F","ó","l","i","c","o">>,
       variantes |-> << <<"á","c","i","d","o"," ","f","ó","l","i","c","o">>,
                       <<"a","c","i","d","o"," ","f","o","l","i","c","o">>,
                       <<"a","c"," ","f","ó","l","i","c","o">>,
                       <<"a","c"," ","f","o","l","i","c","o">>,
                       <<"a","c","f","o","l">> >>,
       emoji |-> <<"U+1F48A">> ],
     [ nombre |-> <<"I","b","u","p","r","o","f","e","n","o">>,
       variantes |-> << <<"i","b","u","p","r","o","f","e","n","o">>,
                       <<"i","b","u","p","r","o","f","e","n">> >>,
       emoji |-> <<"U+1F48A">> ],
     [ nombre |-> <<"N","a","p","r","o","x","e","n","o">>,
       variantes |-> << <<"n","a","p","r","o","x","e","n","o">> >>,
       emoji |-> <<"U+1F48A">> ],
     [ nombre |-> <<"P","r","e","d","n","i","s","o","n","a">>,
       variantes |-> << <<"p","r","e","d","n","i","s","o","n","a">>,
                       <<"p","r","e","d","n","i","s","o","n","e">>,
                       <<"c","o","r","t","i","c","o","i","d","e">> >>,
       emoji |-> <<"U+1F48A">> ],
     [ nombre |-> <<"A","d","a","l","i","m","u","m","a","b"," ","(","H","u","m","i","r","a",")">>,
       variantes |-> << <<"a","d","a","l","i","m","u","m","a","b">>,
                       <<"h","u","m","i","r","a">> >>,
       emoji |-> <<"U+1F489">> ],
     [ nombre |-> <<"T","o","c","i","l","i","z","u","m","a","b">>,
       variantes |-> << <<"t","o","c","i","l","i","z","u","m","a","b">>,
                       <<"a","c","t","e","m","r","a">> >>,
       emoji |-> <<"U+1F489">> ],
     [ nombre |-> <<"E","t","a","n","e","r","c","e","p","t">>,
       variantes |-> << <<"e","t","a","n","e","r","c","e","p","t">>,
                       <<"e","n","b","r","e","l">> >>,
       emoji |-> <<"U+1F489">> ] >>

\* The characters \s of a regular expression matches.
IsReSpace(c) == c \in {" ", "\n", "\t", "\r", "\f"}

\* The index of the first digit of s at or after i; 0 when there is none.
PrimerDigito(s, i) ==
  IF \E j \in i..Len(s) : IsDigit(s[j])
  THEN CHOOSE j \in i..Len(s) : IsDigit(s[j]) /\ \A k \in i..(j - 1) : ~IsDigit(s[k])
  ELSE 0

\* The index after the run of digits of s that starts at i.
FinDigitos(s, i) ==
  CHOOSE j \in i..(Len(s) + 1) :
    /\ \A k \in i..(j - 1) : IsDigit(s[k])
    /\ j = Len(s) + 1 \/ ~IsDigit(s[j])

\* The index after the run of white space of s that starts at i.
FinEspacios(s, i) ==
  CHOOSE j \in i..(Len(s) + 1) :
    /\ \A k \in i..(j - 1) : IsReSpace(s[k])
    /\ j = Len(s) + 1 \/ ~IsReSpace(s[j])

\* The index after the number whose whole part ends before e1: the fraction
\* (?:[.,]\d+)? is taken when a digit follows the point or comma.
FinNumero(s, e1) ==
  IF e1 + 1 <= Len(s) /\ s[e1] \in {".", ","} /\ IsDigit(s[e1 + 1])
  THEN FinDigitos(s, e1 + 1)
  ELSE e1

\* Group 1, the number from d to before e2, when \s*mg follows it; <<>> otherwise.
GrupoDosis(s, d, e2) ==
  IF StartsAt(s, <<"m","g">>, FinEspacios(s, e2)) THEN SubSeq(s, d, e2 - 1) ELSE <<>>

\* [^\d]* has stopped at d, the first digit after the variant (0: there is none).
DosisDesdeDigito(s, d) ==
  IF d = 0 THEN <<>> ELSE GrupoDosis(s, d, FinNumero(s, FinDigitos(s, d)))

\* patron_dosis (line 114) matched at position i of s: group 1 of
\* variante[^\d]*(\d+(?:[.,]\d+)?)\s*mg, or <<>> when it does not match there.
\* [^\d]* stops at the first digit and \d+ takes the whole run of digits.
DosisDesde(s, variante, i) ==
  IF ~StartsAt(s, variante, i) THEN <<>>
  ELSE DosisDesdeDigito(s, PrimerDigito(s, i + Len(variante)))

\* The match that starts leftmost among those starting at inicios.
PrimeraDosis(s, variante, inicios) ==
  IF inicios = {} THEN <<>>
  ELSE DosisDesde(s, variante, CHOOSE i \in inicios : \A j \in inicios : i <= j)

\* re.search(patron_dosis, texto_lower) (line 115): group 1 of the leftmost match,
\* <<>> when there is no match.
BuscarDosis(s, variante) ==
  PrimeraDosis(s, variante, {i \in 1..Len(s) : DosisDesde(s, variante, i) # <<>>})

dias == << <<"l","u","n","e","s">>,
        <<"m","a","r","t","e","s">>,
        <<"m","i","é","r","c","o","l","e","s">>,
        <<"j","u","e","v","e","s">>,
        <<"v","i","e","r","n","e","s">>,
        <<"s","á","b","a","d","o">>,
        <<"d","o","m","i","n","g","o">> >>

\* Lines 134-138: the first day of the list that the context names.
PrimerDia(contexto) ==
  CHOOSE n \in 1..Len(dias) :
    /\ Contains(contexto, dias[n])
    /\ \A m \in 1..(n - 1) : ~Contains(contexto, dias[m])

\* frecuencia (lines 119-138) from the 100 characters that start at the variant.
Frecuencia(contexto) ==
  IF Contains(contexto, <<"s","e","m","a","n","a","l">>) THEN <<"s","e","m","a","n","a","l">>
  ELSE IF \/ Contains(contexto, <<"d","i","a","r","i","o">>)
          \/ Contains(contexto, <<"c","a","d","a"," ","d","í","a">>)
          \/ Contains(contexto, <<"/","d","í","a">>)
       THEN <<"d","i","a","r","i","o">>
  ELSE IF \/ Contains(contexto, <<"q","u","i","n","c","e","n","a","l">>)
          \/ Contains(contexto, <<"c","a","d","a"," ","2"," ","s","e","m","a","n","a","s">>)
       THEN <<"c","a","d","a"," ","2"," ","s","e","m","a","n","a","s">>
  ELSE IF Contains(contexto, <<"c","a","d","a"," ","8"," ","h","o","r","a","s">>) THEN <<"c","a","d","a"," ","8"," ","h","o","r","a","s">>
  ELSE IF Contains(contexto, <<"c","a","d","a"," ","1","2"," ","h","o","r","a","s">>) THEN <<"c","a","d","a"," ","1","2"," ","h","o","r","a","s">>
  ELSE IF ContainsAny(contexto, dias)
       THEN <<"l","o","s"," ">> \o dias[PrimerDia(contexto)] \o <<"s">>
  ELSE <<>>

\* contexto (lines 120-121): texto_lower[idx:idx+100], idx 1-based here.
Contexto(texto_lower, idx) ==
  SubSeq(texto_lower, idx, IF idx + 99 <= Len(texto_lower) THEN idx + 99 ELSE Len(texto_lower))

\* Lines 116 and 142-143: " " and the dose "<group 1> mg", when the pattern matched.
ConDosis(encontrada) ==
  IF encontrada # <<>> THEN <<" ">> \o encontrada \o <<" ","m","g">> ELSE <<>>

\* Lines 144-145
ConFrecuencia(frecuencia) ==
  IF frecuencia # <<>> THEN <<" ","(">> \o frecuencia \o <<")">> ELSE <<>>

\* med_str (lines 113-145) for the variant found in texto_lower.
MedStr(med, variante, texto_lower) ==
  med.emoji \o <<" ","*","*">> \o med.nombre \o <<"*","*">>
    \o ConDosis(BuscarDosis(texto_lower, variante))
    \o ConFrecuencia(Frecuencia(Contexto(texto_lower, Find(texto_lower, variante))))

\* Lines 147-148
Anadir(medicaciones, med_str) ==
  IF IsOneOf(med_str, medicaciones) THEN medicaciones ELSE Append(medicaciones, med_str)

\* The variants of a drug that occur in the text, in the order of the list.
Presentes(med, texto_lower) == SelectSeq(med.variantes, LAMBDA v : Contains(texto_lower, v))

\* Lines 111-148 without the break of line 149: the loop goes on to the other
\* variants, here to the last one found.
ConMedicamento_sin_break(med, presentes, texto_lower, medicaciones) ==
  IF Len(presentes) = 0 THEN medicaciones
  ELSE Anadir(Anadir(medicaciones, MedStr(med, presentes[1], texto_lower)),
              MedStr(med, presentes[Len(presentes)], texto_lower))

\* Lines 111-149 for one drug: the first variant found gives the entry.
ConMedicamento(med, presentes, texto_lower, medicaciones) ==
  IF Len(presentes) = 0 THEN medicaciones
  ELSE Anadir(medicaciones, MedStr(med, presentes[1], texto_lower))

\* The loop of line 110 from the n-th drug on.
RECURSIVE Medicaciones(_, _, _)
Medicaciones(texto_lower, n, medicaciones) ==
  IF n > Len(medicamentos_info) THEN medicaciones
  ELSE Medicaciones(texto_lower, n + 1,
                    ConMedicamento(medicamentos_info[n],
                                   Presentes(medicamentos_info[n], texto_lower),
                                   texto_lower, medicaciones))

\* Line 151
ListaONone(medicaciones) ==
  IF Len(medicaciones) = 0 THEN Ret(PyNone)
  ELSE Ret(PyList([i \in 1..Len(medicaciones) |-> PyStr(medicaciones[i])]))

\* _extraer_medicaciones_del_plan (lines 53-151): None, or the list of entries; on
\* a value that is not empty and is no text, plan_texto.lower() fails.
_extraer_medicaciones_del_plan(plan_texto) ==
  IF ~Truthy(plan_texto) THEN Ret(PyNone)
  ELSE IF ~IsStr(plan_texto) THEN Raise("AttributeError")
  ELSE ListaONone(Medicaciones(Lower(plan_texto.s), 1, <<>>))

(***************************************************************************)
(* responder_duda_paciente (patient_bot.py)                                *)
(***************************************************************************)

saludos == << <<"h","o","l","a">>,
     <<"b","u","e","n","a","s">>,
     <<"g","r","a","c","i","a","s">>,
     <<"q","u","é"," ","t","a","l">>,
     <<"b","u","e","n","o","s"," ","d","í","a","s">>,
     <<"b","u","e","n","a","s"," ","t","a","r","d","e","s">> >>

palabras_urgencia == << <<"d","o","l","o","r"," ","f","u","e","r","t","e">>,
     <<"s","a","n","g","r","e">>,
     <<"f","i","e","b","r","e"," ","a","l","t","a">>,
     <<"h","i","n","c","h","a","d","o">>,
     <<"a","h","o","g","o">>,
     <<"u","r","g","e","n","c","i","a">>,
     <<"p","e","c","h","o">> >>

palabras_olvido ==
  << <<"o","l","v","i","d","é">>,
     <<"o","l","v","i","d","e">>,
     <<"o","l","v","i","d","a","d","o">>,
     <<"p","e","r","d","í">>,
     <<"p","e","r","d","i">>,
     <<"p","e","r","d","i","d","o">>,
     <<"n","o"," ","m","e"," ","p","i","n","c","h","é">>,
     <<"n","o"," ","m","e"," ","p","i","n","c","h","e">>,
     <<"n","o"," ","t","o","m","é">>,
     <<"n","o"," ","t","o","m","e">>,
     <<"s","a","l","t","é">>,
     <<"s","a","l","t","e">>,
     <<"s","a","l","t","a","d","o">>,
     <<"m","e"," ","l","a"," ","s","a","l","t","é">>,
     <<"s","e"," ","m","e"," ","p","a","s","ó">>,
     <<"a","y","e","r"," ","n","o">>,
     <<"n","o"," ","p","u","s","e">>,
     <<"q","u","é"," ","h","a","g","o">>,
     <<"q","u","e"," ","h","a","g","o">>,
     <<"m","e"," ","o","l","v","i","d","e">> >>

olvido_metotrexato == << <<"m","e","t","o","t","r","e","x","a","t","o">>,
     <<"m","e","t","o","t","r","e","x","a","t","e">>,
     <<"m","t","x">> >>

olvido_folico == << <<"á","c","i","d","o"," ","f","ó","l","i","c","o">>,
     <<"a","c","i","d","o"," ","f","o","l","i","c","o">>,
     <<"f","ó","l","i","c","o">>,
     <<"f","o","l","i","c","o">>,
     <<"a","c","f","o","l">> >>

olvido_humira == << <<"h","u","m","i","r","a">>,
     <<"a","d","a","l","i","m","u","m","a","b">> >>

palabras_medicacion ==
  << <<"m","e","d","i","c","a","c","i","ó","n">>,
     <<"m","e","d","i","c","a","c","i","o","n">>,
     <<"m","e","d","i","c","a","m","e","n","t","o">>,
     <<"t","r","a","t","a","m","i","e","n","t","o">>,
     <<"l","l","e","v","o">>,
     <<"t","o","m","o">>,
     <<"a","c","t","u","a","l">>,
     <<"a","h","o","r","a">>,
     <<"q","u","é"," ","t","o","m","o">>,
     <<"q","u","e"," ","t","o","m","o">>,
     <<"d","o","s","i","s">>,
     <<"p","a","u","t","a">>,
     <<"i","n","y","e","c","t","a","r">>,
     <<"p","i","n","c","h","a","r">>,
     <<"p","a","s","t","i","l","l","a">> >>

palabras_cita ==
  << <<"c","i","t","a">>,
     <<"p","r","ó","x","i","m","a"," ","v","i","s","i","t","a">>,
     <<"p","r","o","x","i","m","a"," ","v","i","s","i","t","a">>,
     <<"c","u","a","n","d","o"," ","t","e","n","g","o">>,
     <<"r","e","v","i","s","i","ó","n">>,
     <<"r","e","v","i","s","i","o","n">> >>

\* Line 174
MSG_SALUDO(nombre_paciente) ==
  <<"¡","H","o","l","a"," ">> \o nombre_paciente
    \o <<"!"," ","S","o","y"," ","t","u"," ","a","s","i","s","t","e","n","t","e"," ","v","i","r","t",
      "u","a","l"," ","d","e"," ","l","a"," ","u","n","i","d","a","d","."," ","E","s","t","o",
      "y"," ","a","q","u","í"," ","p","a","r","a"," ","a","y","u","d","a","r","t","e"," ","c",
      "o","n"," ","c","u","a","l","q","u","i","e","r"," ","d","u","d","a"," ","s","o","b","r",
      "e"," ","t","u"," ","t","r","a","t","a","m","i","e","n","t","o"," ","o"," ","m","e","d",
      "i","c","a","c","i","ó","n",".">>

\* Line 179
MSG_URGENCIA ==
  <<"U+26A0","U+FE0F"," ","*","*","D","E","T","E","C","T","A","D","O"," ","S","Í","N","T","O","M",
      "A"," ","D","E"," ","A","L","E","R","T","A","*","*","\n","\n","C","o","m","o"," ","a","s",
      "i","s","t","e","n","t","e"," ","v","i","r","t","u","a","l"," ","n","o"," ","p","u","e",
      "d","o"," ","v","a","l","o","r","a","r"," ","u","r","g","e","n","c","i","a","s"," ","m",
      "é","d","i","c","a","s","."," ","P","o","r"," ","f","a","v","o","r",","," ","a","c","u",
      "d","e"," ","a","l"," ","h","o","s","p","i","t","a","l"," ","o"," ","c","o","n","t","a",
      "c","t","a"," ","c","o","n"," ","t","u"," ","r","e","u","m","a","t","ó","l","o","g","o",
      " ","i","n","m","e","d","i","a","t","a","m","e","n","t","e",".">>

\* Lines 196-206
MSG_OLVIDO_METOTREXATO ==
  <<"U+26A0","U+FE0F"," ","*","*","D","o","s","i","s"," ","o","l","v","i","d","a","d","a"," ","d",
      "e"," ","M","e","t","o","t","r","e","x","a","t","o","*","*","\n","\n","*","*","R","e","g",
      "l","a"," ","g","e","n","e","r","a","l",":","*","*"," ","S","i"," ","t","e"," ","o","l",
      "v","i","d","a","s","t","e"," ","a","y","e","r",","," ","p","u","e","d","e","s"," ","p",
      "o","n","é","r","t","e","l","a"," ","h","o","y"," ","(","d","e","n","t","r","o"," ","d",
      "e"," ","l","a","s"," ","4","8","h"," ","s","i","g","u","i","e","n","t","e","s"," ","a",
      "l"," ","d","í","a"," ","p","a","u","t","a","d","o",")",".","\n","\n","U+1F4CC"," ","*",
      "*","R","e","c","o","m","e","n","d","a","c","i","o","n","e","s",":","*","*","\n","U+2022",
      " ","S","i"," ","h","a","n"," ","p","a","s","a","d","o"," ","*","*","m","e","n","o","s",
      " ","d","e"," ","2"," ","d","í","a","s","*","*",":"," ","P","o","n","t","e"," ","l","a",
      " ","d","o","s","i","s"," ","h","o","y"," ","y"," ","s","i","g","u","e"," ","c","o","n",
      " ","t","u"," ","c","a","l","e","n","d","a","r","i","o"," ","n","o","r","m","a","l"," ",
      "l","a"," ","p","r","ó","x","i","m","a"," ","s","e","m","a","n","a",".","\n","U+2022"," ",
      "S","i"," ","h","a","n"," ","p","a","s","a","d","o"," ","*","*","m","á","s"," ","d","e",
      " ","2"," ","d","í","a","s","*","*",":"," ","N","O"," ","t","e"," ","p","o","n","g","a",
      "s"," ","d","o","b","l","e"," ","d","o","s","i","s","."," ","S","a","l","t","a"," ","e",
      "s","t","a"," ","s","e","m","a","n","a"," ","y"," ","c","o","n","t","i","n","ú","a"," ",
      "l","a"," ","p","r","ó","x","i","m","a"," ","s","e","g","ú","n"," ","t","u"," ","p","a",
      "u","t","a"," ","h","a","b","i","t","u","a","l",".","\n","\n","U+26A0","U+FE0F"," ","*",
      "*","I","m","p","o","r","t","a","n","t","e",":","*","*"," ","S","i"," ","t","i","e","n",
      "e","s"," ","d","u","d","a","s"," ","o"," ","e","s","t","o"," ","o","c","u","r","r","e",
      " ","c","o","n"," ","f","r","e","c","u","e","n","c","i","a",","," ","c","o","n","s","u",
      "l","t","a"," ","c","o","n"," ","t","u"," ","r","e","u","m","a","t","ó","l","o","g","o",
      ".","\n","\n","U+1F4A1"," ","C","o","n","s","e","j","o",":"," ","A","c","t","i","v","a",
      " ","r","e","c","o","r","d","a","t","o","r","i","o","s"," ","e","n"," ","t","u"," ","m",
      "ó","v","i","l"," ","p","a","r","a"," ","e","l"," ","d","í","a"," ","q","u","e"," ","t",
      "e"," ","t","o","c","a",".">>

\* Lines 210-217
MSG_OLVIDO_FOLICO ==
  <<"U+1F48A"," ","*","*","D","o","s","i","s"," ","o","l","v","i","d","a","d","a"," ","d","e"," ",
      "Á","c","i","d","o"," ","F","ó","l","i","c","o","*","*","\n","\n","N","o"," ","t","e"," ",
      "p","r","e","o","c","u","p","e","s",","," ","e","l"," ","á","c","i","d","o"," ","f","ó",
      "l","i","c","o"," ","e","s"," ","u","n"," ","s","u","p","l","e","m","e","n","t","o"," ",
      "y"," ","n","o"," ","p","a","s","a"," ","n","a","d","a"," ","g","r","a","v","e"," ","s",
      "i"," ","t","e"," ","s","a","l","t","a","s"," ","u","n","a"," ","d","o","s","i","s",".",
      "\n","\n","U+1F4CC"," ","*","*","R","e","c","o","m","e","n","d","a","c","i","o","n","e",
      "s",":","*","*","\n","U+2022"," ","T","ó","m","a","l","o"," ","c","u","a","n","d","o"," ",
      "t","e"," ","a","c","u","e","r","d","e","s"," ","s","i"," ","e","s"," ","e","l"," ","m",
      "i","s","m","o"," ","d","í","a",".","\n","U+2022"," ","S","i"," ","y","a"," ","p","a","s",
      "ó"," ","e","l"," ","d","í","a",","," ","s","i","m","p","l","e","m","e","n","t","e"," ",
      "c","o","n","t","i","n","ú","a"," ","c","o","n"," ","l","a"," ","s","i","g","u","i","e",
      "n","t","e"," ","d","o","s","i","s"," ","p","r","o","g","r","a","m","a","d","a",".","\n",
      "U+2022"," ","*","*","N","u","n","c","a"," ","t","o","m","e","s"," ","d","o","b","l","e",
      " ","d","o","s","i","s","*","*"," ","p","a","r","a"," ","c","o","m","p","e","n","s","a",
      "r",".">>

\* Lines 221-228
MSG_OLVIDO_HUMIRA ==
  <<"U+1F489"," ","*","*","D","o","s","i","s"," ","o","l","v","i","d","a","d","a"," ","d","e"," ",
      "H","u","m","i","r","a","/","A","d","a","l","i","m","u","m","a","b","*","*","\n","\n",
      "U+1F4CC"," ","*","*","R","e","c","o","m","e","n","d","a","c","i","o","n","e","s",":","*",
      "*","\n","U+2022"," ","S","i"," ","t","e"," ","a","c","u","e","r","d","a","s"," ","*","*",
      "e","n"," ","l","o","s"," ","p","r","i","m","e","r","o","s"," ","d","í","a","s","*","*",
      ","," ","p","o","n","t","e"," ","l","a"," ","i","n","y","e","c","c","i","ó","n"," ","c",
      "u","a","n","t","o"," ","a","n","t","e","s",".","\n","U+2022"," ","L","u","e","g","o",",",
      " ","a","j","u","s","t","a"," ","t","u"," ","c","a","l","e","n","d","a","r","i","o"," ",
      "p","a","r","a"," ","m","a","n","t","e","n","e","r"," ","e","l"," ","i","n","t","e","r",
      "v","a","l","o"," ","d","e"," ","2"," ","s","e","m","a","n","a","s",".","\n","U+2022"," ",
      "*","*","N","o"," ","t","e"," ","p","o","n","g","a","s"," ","d","o","b","l","e"," ","d",
      "o","s","i","s",".","*","*","\n","\n","U+26A0","U+FE0F"," ","S","i"," ","t","i","e","n",
      "e","s"," ","d","u","d","a","s",","," ","c","o","n","t","a","c","t","a"," ","c","o","n",
      " ","t","u"," ","r","e","u","m","a","t","ó","l","o","g","o"," ","o"," ","e","n","f","e",
      "r","m","e","r","a"," ","d","e"," ","l","a"," ","u","n","i","d","a","d",".">>

\* Lines 232-238
MSG_OLVIDO_GENERICO ==
  <<"U+26A0","U+FE0F"," ","*","*","D","o","s","i","s"," ","o","l","v","i","d","a","d","a"," ","d",
      "e"," ","m","e","d","i","c","a","c","i","ó","n","*","*","\n","\n","U+1F4CC"," ","*","*",
      "R","e","g","l","a"," ","g","e","n","e","r","a","l",":","*","*","\n","U+2022"," ","S","i",
      " ","t","e"," ","a","c","u","e","r","d","a","s"," ","e","l"," ","m","i","s","m","o"," ",
      "d","í","a"," ","o"," ","a","l"," ","d","í","a"," ","s","i","g","u","i","e","n","t","e",
      ","," ","t","ó","m","a","l","a","/","p","o","n","l","a"," ","c","u","a","n","d","o"," ",
      "t","e"," ","a","c","u","e","r","d","e","s",".","\n","U+2022"," ","S","i"," ","h","a","n",
      " ","p","a","s","a","d","o"," ","m","á","s"," ","d","e"," ","2"," ","d","í","a","s",",",
      " ","*","*","n","o"," ","t","o","m","e","s"," ","d","o","b","l","e"," ","d","o","s","i",
      "s","*","*","."," ","E","s","p","e","r","a"," ","a"," ","l","a"," ","s","i","g","u","i",
      "e","n","t","e"," ","d","o","s","i","s"," ","p","r","o","g","r","a","m","a","d","a",".",
      "\n","\n","U+26A0","U+FE0F"," ","S","i"," ","t","i","e","n","e","s"," ","d","u","d","a",
      "s"," ","s","o","b","r","e"," ","t","u"," ","m","e","d","i","c","a","m","e","n","t","o",
      " ","e","s","p","e","c","í","f","i","c","o",","," ","c","o","n","s","u","l","t","a"," ",
      "c","o","n"," ","t","u"," ","r","e","u","m","a","t","ó","l","o","g","o"," ","o"," ","l",
      "l","a","m","a"," ","a"," ","l","a"," ","u","n","i","d","a","d",".">>

\* Line 275
MSG_MEDICACION ==
  <<"U+1F48A"," ","*","*","T","u"," ","m","e","d","i","c","a","c","i","ó","n"," ","a","c","t","u",
      "a","l",":","*","*","\n","\n">>

\* Line 278
MSG_CALENDARIO ==
  <<"\n","U+1F4C5"," ","P","u","e","d","e","s"," ","v","e","r"," ","e","l"," ","c","a","l","e",
      "n","d","a","r","i","o"," ","e","n"," ","l","a"," ","p","e","s","t","a","ñ","a"," ","'",
      "M","i"," ","C","a","l","e","n","d","a","r","i","o","'"," ","p","a","r","a"," ","v","e",
      "r"," ","c","u","á","n","d","o"," ","t","e"," ","t","o","c","a"," ","c","a","d","a"," ",
      "m","e","d","i","c","a","c","i","ó","n",".">>

\* Line 281
MSG_PLAN ==
  <<"U+1F4CB"," ","*","*","T","u"," ","p","l","a","n"," ","d","e"," ","t","r","a","t","a","m","i",
      "e","n","t","o"," ","a","c","t","u","a","l",":","*","*","\n","\n">>

\* Line 283
MSG_SIN_PLAN ==
  <<"U+1F4CB"," ","N","o"," ","t","i","e","n","e","s"," ","n","i","n","g","ú","n"," ","p","l","a",
      "n"," ","d","e"," ","t","r","a","t","a","m","i","e","n","t","o"," ","a","c","t","i","v",
      "o","."," ","C","o","n","s","u","l","t","a"," ","c","o","n"," ","t","u"," ","m","é","d",
      "i","c","o"," ","e","n"," ","l","a"," ","p","r","ó","x","i","m","a"," ","v","i","s","i",
      "t","a",".">>

\* Line 290
MSG_CITAS ==
  <<"U+1F4C5"," ","L","a","s"," ","c","i","t","a","s"," ","s","e"," ","g","e","s","t","i","o","n",
      "a","n"," ","a"," ","t","r","a","v","é","s"," ","d","e"," ","l","a"," ","s","e","c","r",
      "e","t","a","r","í","a"," ","d","e","l"," ","h","o","s","p","i","t","a","l","."," ","P",
      "u","e","d","e","s"," ","l","l","a","m","a","r"," ","a","l"," ","t","e","l","é","f","o",
      "n","o"," ","d","e"," ","a","t","e","n","c","i","ó","n"," ","o"," ","c","o","n","s","u",
      "l","t","a","r"," ","t","u"," ","p","o","r","t","a","l"," ","d","e","l"," ","p","a","c",
      "i","e","n","t","e"," ","p","a","r","a"," ","v","e","r"," ","t","u","s"," ","p","r","ó",
      "x","i","m","a","s"," ","c","i","t","a","s",".">>

\* Line 296
NO_CONTEXT == <<"N","O","_","C","O","N","T","E","X","T">>

\* Line 316
MSG_INFORMACION ==
  <<"U+1F4DA"," ","*","*","I","n","f","o","r","m","a","c","i","ó","n"," ","g","e","n","e","r","a",
      "l",":","*","*","\n","\n">>

\* Line 322
MSG_FALLBACK ==
  <<"U+2753"," ","N","o"," ","t","e","n","g","o"," ","i","n","f","o","r","m","a","c","i","ó","n",
      " ","e","s","p","e","c","í","f","i","c","a"," ","s","o","b","r","e"," ","e","s","o",".",
      " ","S","i"," ","t","i","e","n","e","s"," ","d","u","d","a","s"," ","s","o","b","r","e",
      " ","t","u"," ","t","r","a","t","a","m","i","e","n","t","o",","," ","t","e"," ","r","e",
      "c","o","m","i","e","n","d","o"," ","c","o","n","s","u","l","t","a","r","l","o"," ","c",
      "o","n"," ","t","u"," ","m","é","d","i","c","o"," ","e","n"," ","l","a"," ","p","r","ó",
      "x","i","m","a"," ","v","i","s","i","t","a"," ","o"," ","l","l","a","m","a","r"," ","a",
      " ","l","a"," ","u","n","i","d","a","d",".">>

\* Line 173
es_saludo(p) == IsOneOf(p, saludos)

\* Line 178 with "p in palabras_urgencia" for "x in p": the whole question has to be
\* the keyword.
es_urgencia_exacta(p) == IsOneOf(p, palabras_urgencia)

\* Line 178
es_urgencia(p) == ContainsAny(p, palabras_urgencia)

\* Line 191
es_dosis_olvidada(p) == ContainsAny(p, palabras_olvido)

\* Lines 193-238
RespuestaOlvido(p) ==
  IF ContainsAny(p, olvido_metotrexato) THEN MSG_OLVIDO_METOTREXATO
  ELSE IF ContainsAny(p, olvido_folico) THEN MSG_OLVIDO_FOLICO
  ELSE IF ContainsAny(p, olvido_humira) THEN MSG_OLVIDO_HUMIRA
  ELSE MSG_OLVIDO_GENERICO

\* Line 249 with the appointment keywords looked at first: a question that names
\* an appointment is no medication question.
es_pregunta_medicacion_tras_cita(p) ==
  ContainsAny(p, palabras_medicacion) /\ ~ContainsAny(p, palabras_cita)

\* Line 249
es_pregunta_medicacion(p) == ContainsAny(p, palabras_medicacion)

\* A visit record, as far as the assistant reads it.
Visita(plan_tratamiento, curso_clinico_generado) ==
  PyDict([ plan_tratamiento |-> plan_tratamiento,
           curso_clinico_generado |-> curso_clinico_generado ])

\* plan_directo (lines 258-267) of the last visit; `"PLAN:" in curso` fails on a
\* curso that is no text.
PlanDirecto(ultimo) ==
  LET plan_directo == GetD(ultimo, "plan_tratamiento", PyStr(<<>>))
      curso == GetD(ultimo, "curso_clinico_generado", PyStr(<<>>))
  IN  IF Truthy(plan_directo) THEN Ret(plan_directo)
      ELSE IF ~IsStr(curso) THEN Raise("TypeError")
      ELSE IF Contains(curso.s, <<"P","L","A","N",":">>)
           THEN Ret(PyStr(Strip(LastAfter(curso.s, <<"P","L","A","N",":">>))))
      ELSE IF Contains(curso.s, <<"P","l","a","n",":">>)
           THEN Ret(PyStr(Strip(LastAfter(curso.s, <<"P","l","a","n",":">>))))
      ELSE Ret(curso)

\* Lines 252-269 with historial_paciente[0] for historial_paciente[-1]: the plan
\* of the earliest visit.
UltimoPlan_primera(historial_paciente) ==
  IF ~Truthy(historial_paciente) THEN Ret(PyNone)
  ELSE IF IsDict(historial_paciente.l[1]) THEN PlanDirecto(historial_paciente.l[1])
  ELSE Ret(PyNone)

\* ultimo_plan (lines 252-269)
UltimoPlan(historial_paciente) ==
  IF ~Truthy(historial_paciente) THEN Ret(PyNone)
  ELSE LET ultimo == historial_paciente.l[Len(historial_paciente.l)]
       IN  IF IsDict(ultimo) THEN PlanDirecto(ultimo) ELSE Ret(PyNone)

\* The list of lines 275-278
RECURSIVE Vinetas(_)
Vinetas(medicaciones) ==
  IF Len(medicaciones) = 0 THEN <<>>
  ELSE <<"U+2022"," ">> \o PyToStr(medicaciones[1]) \o <<"\n">> \o Vinetas(Tail(medicaciones))

\* Lines 274-281: the answer for a plan, medicaciones being the outcome of
\* _extraer_medicaciones_del_plan on it.
RespuestaConPlan(ultimo_plan, medicaciones) ==
  IF ~medicaciones.ok THEN medicaciones
  ELSE IF Truthy(medicaciones.val)
       THEN Ret(MSG_MEDICACION \o Vinetas(medicaciones.val.l) \o MSG_CALENDARIO)
  ELSE Ret(MSG_PLAN \o PyToStr(ultimo_plan))

\* Lines 271-283, plan being the outcome of lines 252-269.
RespuestaDelPlan(plan) ==
  IF ~plan.ok THEN plan
  ELSE IF ~Truthy(plan.val) THEN Ret(MSG_SIN_PLAN)
  ELSE RespuestaConPlan(plan.val, _extraer_medicaciones_del_plan(plan.val))

\* Lines 251-283
RespuestaMedicacion(historial_paciente) == RespuestaDelPlan(UltimoPlan(historial_paciente))

\* Line 289
es_pregunta_cita(p) == ContainsAny(p, palabras_cita)

\* The question falls through to section 5 (line 296).
LlegaAConsulta(p) ==
  /\ ~es_saludo(p)
  /\ ~es_urgencia(p)
  /\ ~es_dosis_olvidada(p)
  /\ ~es_pregunta_medicacion(p)
  /\ ~es_pregunta_cita(p)

\* The handle cargar_conocimiento returns for a loaded store.
Vectorstore == [t |-> "vectorstore"]

\* len(v) of a text or a list; no len for the other values of the model.
TieneLen(v) == v.t \in {"str", "list"}
PyLen(v) == IF v.t = "str" THEN Len(v.s) ELSE Len(v.l)

\* `"NO_CONTEXT" in raw_response` for a text or a list.
EnRespuesta(raw_response) ==
  IF raw_response.t = "str" THEN Contains(raw_response.s, NO_CONTEXT)
  ELSE \E i \in 1..Len(raw_response.l) : raw_response.l[i] = PyStr(NO_CONTEXT)

\* Lines 305-312 with `raw_response != "NO_CONTEXT"` for the test of containment
\* of line 308.
RespuestaRag_igual(oq) ==
  IF ~oq.ok THEN PyStr(NO_CONTEXT)
  ELSE IF ~TieneLen(oq.val) THEN PyStr(NO_CONTEXT)
  ELSE IF oq.val # PyStr(NO_CONTEXT) /\ PyLen(oq.val) > 5 THEN oq.val
  ELSE PyStr(NO_CONTEXT)

\* Lines 305-312: respuesta_rag after the query whose outcome is oq.  The test of
\* line 308 raises on a value that has no `in` or no len; the except clause
\* absorbs that and a raise of consultar_rag.
RespuestaRag(oq) ==
  IF ~oq.ok THEN PyStr(NO_CONTEXT)
  ELSE IF ~TieneLen(oq.val) THEN PyStr(NO_CONTEXT)
  ELSE IF ~EnRespuesta(oq.val) /\ PyLen(oq.val) > 5 THEN oq.val
  ELSE PyStr(NO_CONTEXT)

\* Lines 315-322
RespuestaFinal(respuesta_rag) ==
  IF respuesta_rag # PyStr(NO_CONTEXT)
  THEN MSG_INFORMACION \o PyToStr(respuesta_rag)
  ELSE MSG_FALLBACK

\* Lines 296-322.  rag is RAG_DISPONIBLE, cache the vectorstore_cache of the
\* session, oc what cargar_conocimiento does if called and oq what consultar_rag
\* does if called.  The result is the outcome of the call, the cache it leaves and
\* the collaborator calls it made.  cargar_conocimiento is called outside any try.
Consulta(rag, cache, oc, oq) ==
  IF ~rag
  THEN [res |-> Ret(RespuestaFinal(PyStr(NO_CONTEXT))), cache |-> cache, llamadas |-> <<>>]
  ELSE IF cache = PyNone /\ ~oc.ok
  THEN [res |-> oc, cache |-> cache, llamadas |-> <<"cargar_conocimiento">>]
  ELSE LET cache2 == IF cache = PyNone THEN oc.val ELSE cache
           carga == IF cache = PyNone THEN <<"cargar_conocimiento">> ELSE <<>>
       IN  IF Truthy(cache2)
           THEN [res |-> Ret(RespuestaFinal(RespuestaRag(oq))), cache |-> cache2,
                 llamadas |-> carga \o <<"consultar_rag">>]
           ELSE [res |-> Ret(RespuestaFinal(PyStr(NO_CONTEXT))), cache |-> cache2,
                 llamadas |-> carga]

\* A branch that returns before section 5.
SinConsulta(res, cache) == [res |-> res, cache |-> cache, llamadas |-> <<>>]

\* responder_duda_paciente (lines 154-322)
responder_duda_paciente(pregunta, historial_paciente, nombre_paciente, rag, cache, oc, oq) ==
  LET p == Lower(pregunta)
  IN  IF es_saludo(p) THEN SinConsulta(Ret(MSG_SALUDO(nombre_paciente)), cache)
      ELSE IF es_urgencia(p) THEN SinConsulta(Ret(MSG_URGENCIA), cache)
      ELSE IF es_dosis_olvidada(p) THEN SinConsulta(Ret(RespuestaOlvido(p)), cache)
      ELSE IF es_pregunta_medicacion(p)
           THEN SinConsulta(RespuestaMedicacion(historial_paciente), cache)
      ELSE IF es_pregunta_cita(p) THEN SinConsulta(Ret(MSG_CITAS), cache)
      ELSE Consulta(rag, cache, oc, oq)

(***************************************************************************)
(* A chat session: questions answered one after the other                  *)
(***************************************************************************)

\* Phrases that each reach one branch, put together in pairs below.
FrasesClave ==
  << <<"h","o","l","a">>,
     <<"s","a","n","g","r","e">>,
     <<"o","l","v","i","d","é">>,
     <<"m","t","x">>,
     <<"f","ó","l","i","c","o">>,
     <<"h","u","m","i","r","a">>,
     <<"d","o","s","i","s">>,
     <<"c","i","t","a">>,
     <<"u","v","e","i","t","i","s">> >>

\* Questions asked as they are: other cases of letters, white space around a
\* greeting, words of no list.
FrasesSueltas ==
  << <<>>,
     <<"H","o","l","a">>,
     <<"H","O","L","A">>,
     <<"h","o","l","a"," ">>,
     <<" ","h","o","l","a">>,
     <<"B","u","e","n","o","s"," ","D","í","a","s">>,
     <<"m","u","c","h","a","s"," ","g","r","a","c","i","a","s">>,
     <<"S","A","N","G","R","E">>,
     <<"T","e","n","g","o"," ","D","o","l","o","r"," ","F","u","e","r","t","e">>,
     <<"m","e"," ","d","u","e","l","e"," ","e","l"," ","p","e","c","h","o",","," ","q","u","é"," ",
       "h","a","g","o">>,
     <<"h","o","l","a",","," ","t","e","n","g","o"," ","f","i","e","b","r","e"," ","a","l","t","a">>,
     <<"s","e"," ","m","e"," ","o","l","v","i","d","ó"," ","l","a"," ","p","i","n","c","h","a","d",
       "a"," ","d","e"," ","m","e","t","o","t","r","e","x","a","t","o">>,
     <<"¿","Q","u","é"," ","e","s"," ","l","a"," ","u","v","e","í","t","i","s","?">>,
     <<"Á","C","I","D","O"," ","F","Ó","L","I","C","O"," ","o","l","v","i","d","a","d","o">>,
     <<"c","u","á","n","d","o"," ","e","s"," ","m","i"," ","R","e","v","i","s","i","ó","n">> >>

Elems(lista) == {lista[n] : n \in 1..Len(lista)}

\* The questions of the model: every keyword of every list on its own, the loose
\* phrases, and every pair of key phrases in both orders.
Preguntas ==
  Elems(saludos) \cup Elems(palabras_urgencia) \cup Elems(palabras_olvido)
    \cup Elems(olvido_metotrexato) \cup Elems(olvido_folico) \cup Elems(olvido_humira)
    \cup Elems(palabras_medicacion) \cup Elems(palabras_cita) \cup Elems(FrasesSueltas)
    \cup {a \o <<" ">> \o b : a \in Elems(FrasesClave), b \in Elems(FrasesClave)}

T_plan_mtx == <<"M","e","t","o","t","r","e","x","a","t","o"," ","1","5"," ","m","g"," ","s","e","m","a","n",
      "a","l">>
T_curso_mtx ==
  <<"A","N","A","M","N","E","S","I","S",":"," ","b","i","e","n","\n","P","L","A","N",":"," ","M",
      "e","t","o","t","r","e","x","a","t","o"," ","1","5"," ","m","g"," ","s","e","m","a","n",
      "a","l">>
T_curso_sin_plan == <<"A","N","A","M","N","E","S","I","S",":"," ","b","i","e","n","\n","P","L","A","N",":"," ">>
T_curso_antiguo == <<"P","l","a","n",":"," ","N","a","p","r","o","x","e","n","o"," ","2","5","0"," ","m","g"," ",
      "c","a","d","a"," ","1","2"," ","h","o","r","a","s">>
T_plan_reposo == <<"r","e","p","o","s","o"," ","y"," ","h","i","e","l","o">>
T_curso_reposo == <<"A","N","A","M","N","E","S","I","S",":"," ","d","o","l","o","r","\n","P","L","A","N",":"," ",
      "r","e","p","o","s","o"," ","y"," ","h","i","e","l","o">>
T_texto == <<"t","e","x","t","o">>
T_curso_dos_planes == <<"P","L","A","N",":"," ","N","a","p","r","o","x","e","n","o"," ","2","5","0"," ","m","g","\n",
        "E","V","O","L","U","C","I","O","N",":"," ","m","a","l","\n","P","L","A","N",":"," ",
        "M","e","t","o","t","r","e","x","a","t","o"," ","1","0"," ","m","g"," ","s","e","m","a",
        "n","a","l">>
T_curso_libre == <<"r","e","p","o","s","o"," ","r","e","l","a","t","i","v","o">>

\* The visit histories of the model: none, empty, a visit as render_nueva_visita
\* saves it (ui_visita.py, lines 603 and 625-636: the plan, and a course that ends
\* with "PLAN: " and the plan), one saved with an empty plan, an older record with
\* the course only, a plan that names no drug, two visits, and an entry that is
\* no record; then courses read for want of a plan: one that names no drug, one
\* with two markers, one with none, and a visit without a plan after one with a
\* plan.
Historiales ==
  { PyNone,
    PyList(<<>>),
    PyList(<<Visita(PyStr(T_plan_mtx), PyStr(T_curso_mtx))>>),
    PyList(<<Visita(PyStr(<<>>), PyStr(T_curso_sin_plan))>>),
    PyList(<<Visita(Absent, PyStr(T_curso_antiguo))>>),
    PyList(<<Visita(PyStr(T_plan_reposo), PyStr(T_curso_reposo))>>),
    PyList(<<Visita(PyStr(T_plan_mtx), PyStr(T_curso_mtx)),
             Visita(PyStr(T_plan_reposo), PyStr(T_curso_reposo))>>),
    PyList(<<PyStr(T_texto)>>),
    PyList(<<Visita(PyStr(<<>>), PyStr(T_curso_reposo))>>),
    PyList(<<Visita(Absent, PyStr(T_curso_dos_planes))>>),
    PyList(<<Visita(Absent, PyStr(T_curso_libre))>>),
    PyList(<<Visita(PyStr(T_plan_mtx), PyStr(T_curso_mtx)),
             Visita(PyStr(<<>>), PyStr(T_curso_sin_plan))>>) }

Nombres == { <<"A","n","a">>, <<"L","e","o">> }

\* What cargar_conocimiento may do: raise, return None, return an empty handle
\* (a value that is not None and is false in a test), return a loaded store.
CargarOutcomes == { Raise("RuntimeError"), Ret(PyNone), Ret(PyList(<<>>)), Ret(Vectorstore) }

\* The longest session of the model, counted in calls of cargar_conocimiento.
MaxCargas == 2

T_respuesta_guia == <<"L","a"," ","u","v","e","í","t","i","s"," ","e","s"," ","u","n","a"," ","i","n","f","l","a",
      "m","a","c","i","ó","n"," ","d","e","l"," ","o","j","o",".">>
T_si == <<"S","í">>
T_cinco == <<"N","o"," ","s","é">>
T_seis == <<"R","e","p","o","s","o">>
T_sin_contexto_largo == <<"N","o"," ","l","o"," ","s","é",":"," ","N","O","_","C","O","N","T","E","X","T">>

\* What consultar_rag may do: raise, return a text (an answer, the no-context
\* marker alone or inside a sentence, texts of two, five and six characters), or
\* return a value that is no text.
ConsultarOutcomes ==
  { Raise("RuntimeError"),
    Ret(PyStr(T_respuesta_guia)), Ret(PyStr(NO_CONTEXT)), Ret(PyStr(T_sin_contexto_largo)),
    Ret(PyStr(T_si)), Ret(PyStr(<<>>)), Ret(PyStr(T_cinco)), Ret(PyStr(T_seis)),
    Ret(PyNone), Ret(PyInt(7)),
    Ret(PyList(<<PyInt(1), PyInt(2), PyInt(3), PyInt(4), PyInt(5), PyInt(6)>>)) }

\* What the two collaborators do in a call on question p (lower-cased): NoCall
\* for the one the call does not reach.
Colaboradores(p, rag, cache) ==
  IF ~LlegaAConsulta(p) \/ ~rag THEN {<<NoCall, NoCall>>}
  ELSE IF cache = PyNone
  THEN UNION { {<<oc, oq>> : oq \in (IF oc.ok /\ Truthy(oc.val) THEN ConsultarOutcomes
                                                               ELSE {NoCall})}
               : oc \in CargarOutcomes }
  ELSE IF Truthy(cache) THEN {<<NoCall, oq>> : oq \in ConsultarOutcomes}
  ELSE {<<NoCall, NoCall>>}

\* The calls of cargar_conocimiento among the collaborator calls of one call.
Cargas(llamadas) ==
  Cardinality({i \in 1..Len(llamadas) : llamadas[i] = "cargar_conocimiento"})

\* What a call leaves: r is the result of responder_duda_paciente.
Respondida(pregunta, historial, nombre, oc, oq, r) ==
  /\ b_pregunta' = pregunta
  /\ b_historial' = historial
  /\ b_nombre' = nombre
  /\ b_cargar' = oc
  /\ b_consultar' = oq
  /\ b_respuesta' = r.res
  /\ b_llamadas' = r.llamadas
  /\ b_cargas' = b_cargas + Cargas(r.llamadas)
  /\ vectorstore_cache' = r.cache

\* The patient sends a question and responder_duda_paciente answers it.
Preguntar ==
  /\ b_pc = "espera"
  /\ b_cargas < MaxCargas
  /\ \E pregunta \in Preguntas, historial \in Historiales, nombre \in Nombres :
       \E col \in Colaboradores(Lower(pregunta), RAG_DISPONIBLE, vectorstore_cache) :
         Respondida(pregunta, historial, nombre, col[1], col[2],
                    responder_duda_paciente(pregunta, historial, nombre, RAG_DISPONIBLE,
                                            vectorstore_cache, col[1], col[2]))
  /\ b_pc' = "respondida"
  /\ UNCHANGED <<RAG_DISPONIBLE, x_pc, x_plan_texto, x_medicaciones>>
  /\ UNCHANGED <<vars_norm, vars_visita, vars_alta, vars_auth>>

\* The call is over: its arguments and locals are gone, the session state stays,
\* and the chat waits for the next question.
Esperar ==
  /\ b_pc = "respondida"
  /\ b_pc' = "espera"
  /\ b_pregunta' = <<>>
  /\ b_historial' = PyNone
  /\ b_nombre' = <<>>
  /\ b_cargar' = NoCall
  /\ b_consultar' = NoCall
  /\ b_respuesta' = NoCall
  /\ b_llamadas' = <<>>
  /\ UNCHANGED <<RAG_DISPONIBLE, vectorstore_cache, b_cargas>>
  /\ UNCHANGED <<x_pc, x_plan_texto, x_medicaciones>>
  /\ UNCHANGED <<vars_norm, vars_visita, vars_alta, vars_auth>>

NextBot == Preguntar \/ Esperar

\* The engine is importable or not (lines 37-46); the session is new.
InitBot == RAG_DISPONIBLE \in BOOLEAN /\ ChatNuevo /\ ExtractorQuieto

InitSpecBot == NormQuieto /\ VisitaQuieta /\ InitBot /\ AltaQuieta /\ AuthQuieta

SpecBot == InitSpecBot /\ [][NextBot]_vars

(***************************************************************************)
(* Claims on responder_duda_paciente (SpecBot)                             *)
(***************************************************************************)

\* The alarm keywords the claim lists.
PalabrasAlarma ==
  << <<"d","o","l","o","r"," ","f","u","e","r","t","e">>,
     <<"s","a","n","g","r","e">>,
     <<"f","i","e","b","r","e"," ","a","l","t","a">>,
     <<"h","i","n","c","h","a","d","o">>,
     <<"a","h","o","g","o">>,
     <<"u","r","g","e","n","c","i","a">>,
     <<"p","e","c","h","o">> >>

\* C6: a question that contains an alarm keyword gets the fixed alert message,
\* whatever else it contains and whatever the history is, and neither
\* cargar_conocimiento nor consultar_rag is called.
C6_AlarmaPrimero ==
  (b_pc = "respondida" /\ ContainsAny(Lower(b_pregunta), PalabrasAlarma)) =>
    /\ b_respuesta = Ret(MSG_URGENCIA)
    /\ b_llamadas = <<>>

\* C6's case: a question with an alarm keyword and a medication keyword, asked with
\* a plan on record and the engine available, got the alert message.
C6_Witness ==
  /\ b_pc = "respondida"
  /\ ContainsAny(Lower(b_pregunta), PalabrasAlarma)
  /\ ContainsAny(Lower(b_pregunta), palabras_medicacion)
  /\ RAG_DISPONIBLE
  /\ Truthy(b_historial)
  /\ b_respuesta = Ret(MSG_URGENCIA)

EsPrefijo(k, s) == StartsAt(s, k, 1)

\* The answers of each branch.
EsRespuestaOlvido(r) ==
  r \in { Ret(MSG_OLVIDO_METOTREXATO), Ret(MSG_OLVIDO_FOLICO), Ret(MSG_OLVIDO_HUMIRA),
          Ret(MSG_OLVIDO_GENERICO) }

EsRespuestaMedicacion(r) ==
  r.ok /\ (EsPrefijo(MSG_MEDICACION, r.val) \/ EsPrefijo(MSG_PLAN, r.val) \/ r.val = MSG_SIN_PLAN)

EsRespuestaConsulta(r) == r.ok /\ (EsPrefijo(MSG_INFORMACION, r.val) \/ r.val = MSG_FALLBACK)

\* C7: a question that is neither a greeting nor an alarm is answered by the first
\* branch that matches, in the order missed dose, current medication,
\* appointment, knowledge lookup and fallback; when one of the first three
\* matches, neither collaborator is called.
C7_PrimeraRama ==
  LET p == Lower(b_pregunta)
      olvido == ContainsAny(p, palabras_olvido)
      medicacion == ContainsAny(p, palabras_medicacion)
      cita == ContainsAny(p, palabras_cita)
  IN  (b_pc = "respondida" /\ b_respuesta.ok /\ ~IsOneOf(p, saludos)
         /\ ~ContainsAny(p, PalabrasAlarma)) =>
        /\ olvido => EsRespuestaOlvido(b_respuesta)
        /\ (~olvido /\ medicacion) => EsRespuestaMedicacion(b_respuesta)
        /\ (~olvido /\ ~medicacion /\ cita) => b_respuesta = Ret(MSG_CITAS)
        /\ (~olvido /\ ~medicacion /\ ~cita) => EsRespuestaConsulta(b_respuesta)
        /\ (olvido \/ medicacion \/ cita) => b_llamadas = <<>>

\* C7's case: a question with a missed-dose, a medication and an appointment
\* keyword, asked with the engine available, got the missed-dose answer.
C7_Witness ==
  /\ b_pc = "respondida"
  /\ RAG_DISPONIBLE
  /\ ContainsAny(Lower(b_pregunta), palabras_olvido)
  /\ ContainsAny(Lower(b_pregunta), palabras_medicacion)
  /\ EsRespuestaOlvido(b_respuesta)
  /\ b_llamadas = <<>>

\* A collaborator called in the last call failed: it raised, or the query returned
\* a value that is no text.
FalloDeConsulta ==
  \/ b_cargar # NoCall /\ ~b_cargar.ok
  \/ b_consultar # NoCall /\ (~b_consultar.ok \/ ~IsStr(b_consultar.val))

\* C10: when cargar_conocimiento or consultar_rag raises, or the query returns a
\* value that is no text, the call returns the final fallback message.
C10_FalloContenido ==
  (b_pc = "respondida" /\ FalloDeConsulta) => b_respuesta = Ret(MSG_FALLBACK)

\* C11: within one session cargar_conocimiento is called at most once, whatever
\* it returns; the calls that follow use the cache of the session.
C11_CargaUnaVez == b_cargas <= 1

(***************************************************************************)
(* Claims on the save of a visit (SpecEfectos, SpecVisita)                 *)
(***************************************************************************)

\* The entry e holds the five fields of the form f.
EntradaDe(e, f) ==
  /\ e.fecha = f.fecha
  /\ e.medicacion = f.tipo_med
  /\ e.efectos = f.efectos_sel
  /\ e.descripcion = f.descripcion_efecto
  /\ e.gravedad = f.gravedad

\* C12: every entry appended with "Añadir efecto adverso" during a visit is in
\* efectos_adversos of the visit record handed to guardar_historial, with its five
\* fields as the form had them, and the entries are in the order of the clicks.
C12_EfectosGuardados ==
  v_visita.ok =>
    LET n == Len(h_anadidos)
        k == Len(v_visita.val.efectos_adversos) - n
    IN  /\ k >= 0
        /\ \A i \in 1..n : EntradaDe(v_visita.val.efectos_adversos[k + i], h_anadidos[i])

\* A visit saved with two different entries appended in it.
C12_Witness ==
  /\ v_visita.ok
  /\ v_guardar[2].ok
  /\ Len(h_anadidos) = 2
  /\ h_anadidos[1] # h_anadidos[2]
  /\ Len(v_visita.val.efectos_adversos) = 2

\* The record the most recent click on "Validar" stored, told from what the agent
\* and limpiar_respuesta_ia did in that click.
UltimoValidado ==
  IF ~IA_DISPONIBLE THEN Dict([ estado |-> PyStr(S_Offline) ])
  ELSE IF v_agente.ok /\ v_limpieza.ok THEN v_limpieza.val
  ELSE Dict([ estado |-> PyStr(S_Error),
              analisis |-> PyDict(EmptyDict),
              auditoria |-> Dict([ es_aij |-> PyNone,
                                   razon |-> PyStr(S_ErrorPrefix \o
                                     ExcText(IF ~v_agente.ok THEN v_agente.exc
                                                             ELSE v_limpieza.exc)) ]) ])

\* C13: auditoria_ia of the visit record a save builds is the record the most
\* recent click on "Validar" stored in ia_resultado_cache: the runs between the
\* validation and the save (the card rendered, the verdict classified) leave it as
\* it was, and the save does not normalize it again.
C13_AuditoriaComoValidada ==
  /\ ia_validacion_hecha => ia_resultado_cache = UltimoValidado
  /\ v_visita.ok => v_visita.val.auditoria_ia = UltimoValidado

\* A visit saved with the record limpiar_respuesta_ia reshaped from a flat answer
\* of the agent.
C13_Witness ==
  /\ v_visita.ok
  /\ v_guardar[2].ok
  /\ v_limpieza.ok
  /\ IsDict(v_agente.val)
  /\ v_limpieza.val # v_agente.val
  /\ v_visita.val.auditoria_ia = v_limpieza.val

\* C19: with the agent not available a click on "Validar" does not fail: the cache
\* holds the record {estado: "Offline"}, the card renders with one of the three
\* verdicts, the save button is there to click, and a save hands over that record
\* as auditoria_ia.
C19_ModoOffline ==
  (~IA_DISPONIBLE /\ ia_validacion_hecha) =>
    /\ ia_resultado_cache = Dict([ estado |-> PyStr(S_Offline) ])
    /\ v_veredicto.ok
    /\ v_veredicto.val \in Veredictos
    /\ modo_visita => ENABLED ClickGuardar
    /\ v_visita.ok => v_visita.val.auditoria_ia = Dict([ estado |-> PyStr(S_Offline) ])

\* A visit validated and saved without the agent.
C19_Witness ==
  /\ ~IA_DISPONIBLE
  /\ v_evento = "guardar"
  /\ v_guardar[2].ok
  /\ ~modo_visita
  /\ v_visita.val.auditoria_ia = Dict([ estado |-> PyStr(S_Offline) ])

(***************************************************************************)
(* render_alta_paciente (ui_alta.py): the intake form                      *)
(***************************************************************************)

T_Falta_NHC == <<"F","a","l","t","a"," ","e","l"," ","N","ú","m","e","r","o"," ","d","e"," ","H","i","s","t",
      "o","r","i","a"," ","(","N","H","C",")",".">>
T_Falta_Nombre == <<"F","a","l","t","a"," ","e","l"," ","N","o","m","b","r","e"," ","d","e","l"," ","p","a","c",
      "i","e","n","t","e",".">>
T_Positivo == <<"P","o","s","i","t","i","v","o">>
T_Muy_Alto == <<"M","u","y"," ","A","l","t","o"," ","(","R","e","c","u","r","r","e","n","t","e",")">>
T_Alto == <<"A","l","t","o">>
T_Bajo == <<"B","a","j","o">>
T_P_ == <<"P","_">>
T_12345 == <<"1","2","3","4","5">>
T_NHC_aleatorio == <<"N","H","C","-","4","8","2","1","3">>
T_Ana == <<"A","n","a">>
T_Codo_D == <<"C","o","d","o"," ","D">>
T_Rodilla_I == <<"R","o","d","i","l","l","a"," ","I">>

\* What the user types in the two text inputs: nothing, a text, a blank.
NHCs == { <<>>, T_12345, <<" ">> }
NombresAlta == { <<>>, T_Ana, <<" ">> }

\* The joints of the model, in the order sorted() gives them.
Articulaciones == << T_Codo_D, T_Rodilla_I >>

\* sorted(list(S)) for a set S of joints (line 266)
SortedList(S) == SelectSeq(Articulaciones, LAMBDA j : j \in S)

\* The required-field test with the name left out.
ErrorDeAlta_solo_nhc(nhc, new_nombre) == IF nhc = <<>> THEN T_Falta_NHC ELSE <<>>

\* Lines 228-231: the message of the required-field test, empty when both the
\* NHC and the name are there.
ErrorDeAlta(nhc, new_nombre) ==
  IF nhc = <<>> THEN T_Falta_NHC
  ELSE IF new_nombre = <<>> THEN T_Falta_Nombre
  ELSE <<>>

\* Lines 245-250
Riesgo(historia, ana) ==
  IF historia THEN T_Muy_Alto
  ELSE IF Contains(ana, T_Positivo) THEN T_Alto
  ELSE T_Bajo

\* Lines 253-272: pdata, with n the number of patients cargar_pacientes returned.
\* The biometric fields and the diagnosis are not part of the model.
pdata(n, nhc, new_nombre, historia, ana, arts) ==
  [ id |-> T_P_ \o NatStr(n + 1), numero_historia |-> nhc, nombre |-> new_nombre,
    historia_uveitis |-> historia, articulaciones_afectadas |-> SortedList(arts),
    ana |-> ana, riesgo_uveitis |-> Riesgo(historia, ana) ]

\* What cargar_pacientes (line 254, told by the length of what it returns) and
\* guardar_paciente (line 275) may do.
AltaOutcomes ==
  { <<Raise("OSError"), NoCall>>, <<Ret(0), Raise("OSError")>>, <<Ret(0), Ret(PyNone)>>,
    <<Ret(9), Ret(PyNone)>> }

\* A run that does not reach the save.
SinGuardarPaciente ==
  /\ a_error' = <<>>
  /\ a_guardar' = <<NoCall, NoCall>>
  /\ a_pdata' = NoCall

\* The user edits the text input "NHC" (line 102).
EscribirNHC ==
  /\ ~reset_alta
  /\ \E t \in NHCs : nuevo_nhc' = t
  /\ a_evento' = "nhc"
  /\ SinGuardarPaciente
  /\ UNCHANGED <<HOMUNCULO_OK, reset_alta, nuevo_nombre, historia_uveitis, val_ana,
                 art_afectadas>>
  /\ UNCHANGED <<vars_norm, vars_visita, vars_bot, vars_auth>>

\* The dice button: set_random_nhc (lines 90-92, 104).
set_random_nhc ==
  /\ ~reset_alta
  /\ nuevo_nhc' = T_NHC_aleatorio
  /\ a_evento' = "nhc aleatorio"
  /\ SinGuardarPaciente
  /\ UNCHANGED <<HOMUNCULO_OK, reset_alta, nuevo_nombre, historia_uveitis, val_ana,
                 art_afectadas>>
  /\ UNCHANGED <<vars_norm, vars_visita, vars_bot, vars_auth>>

\* The user edits the text input "Nombre" (line 105).
EscribirNombre ==
  /\ ~reset_alta
  /\ \E t \in NombresAlta : nuevo_nombre' = t
  /\ a_evento' = "nombre"
  /\ SinGuardarPaciente
  /\ UNCHANGED <<HOMUNCULO_OK, reset_alta, nuevo_nhc, historia_uveitis, val_ana,
                 art_afectadas>>
  /\ UNCHANGED <<vars_norm, vars_visita, vars_bot, vars_auth>>

\* The toggle of the uveitis history (line 137) and the radio of the ANAs (line 220).
CambiarClinica ==
  /\ ~reset_alta
  /\ \E h \in BOOLEAN, a \in {T_Negativo, T_Positivo_mas} :
       /\ <<h, a>> # <<historia_uveitis, val_ana>>
       /\ historia_uveitis' = h
       /\ val_ana' = a
  /\ a_evento' = "clinica"
  /\ SinGuardarPaciente
  /\ UNCHANGED <<HOMUNCULO_OK, reset_alta, nuevo_nhc, nuevo_nombre, art_afectadas>>
  /\ UNCHANGED <<vars_norm, vars_visita, vars_bot, vars_auth>>

\* A click on the figure: renderizar_homunculo returns the new selection (line
\* 172).  In the other runs it is taken to return the selection it was given.
MarcarArticulacion ==
  /\ ~reset_alta
  /\ HOMUNCULO_OK
  /\ \E j \in Elems(Articulaciones) :
       art_afectadas' = IF j \in art_afectadas THEN art_afectadas \ {j}
                                               ELSE art_afectadas \cup {j}
  /\ a_evento' = "articulacion"
  /\ SinGuardarPaciente
  /\ UNCHANGED <<HOMUNCULO_OK, reset_alta, nuevo_nhc, nuevo_nombre, historia_uveitis, val_ana>>
  /\ UNCHANGED <<vars_norm, vars_visita, vars_bot, vars_auth>>

\* The delete button under the pills (lines 180-193).
BorrarArticulaciones ==
  /\ ~reset_alta
  /\ \E marcadas_para_borrar \in (SUBSET art_afectadas) \ { {} } :
       art_afectadas' = art_afectadas \ marcadas_para_borrar
  /\ a_evento' = "borrar"
  /\ SinGuardarPaciente
  /\ UNCHANGED <<HOMUNCULO_OK, reset_alta, nuevo_nhc, nuevo_nombre, historia_uveitis, val_ana>>
  /\ UNCHANGED <<vars_norm, vars_visita, vars_bot, vars_auth>>

\* A click on "Guardar Paciente" (lines 227-281), up to st.rerun().
ClickGuardarPaciente ==
  /\ ~reset_alta
  /\ a_evento' = "guardar"
  /\ a_error' = ErrorDeAlta(nuevo_nhc, nuevo_nombre)
  /\ IF ErrorDeAlta(nuevo_nhc, nuevo_nombre) # <<>>
     THEN /\ a_guardar' = <<NoCall, NoCall>>
          /\ a_pdata' = NoCall
          /\ reset_alta' = reset_alta
     ELSE \E g \in AltaOutcomes :
            /\ a_guardar' = g
            /\ a_pdata' = IF g[1].ok
                          THEN Ret(pdata(g[1].val, nuevo_nhc, nuevo_nombre, historia_uveitis,
                                         val_ana, art_afectadas))
                          ELSE NoCall
            /\ reset_alta' = (g[1].ok /\ g[2].ok)
  /\ UNCHANGED <<HOMUNCULO_OK, nuevo_nhc, nuevo_nombre, historia_uveitis, val_ana,
                 art_afectadas>>
  /\ UNCHANGED <<vars_norm, vars_visita, vars_bot, vars_auth>>

\* The run that finds reset_alta set (lines 63-82): the form is emptied, the flag
\* cleared, and the script runs again.
ReiniciarAlta ==
  /\ reset_alta
  /\ reset_alta' = FALSE
  /\ nuevo_nhc' = <<>>
  /\ nuevo_nombre' = <<>>
  /\ historia_uveitis' = FALSE
  /\ val_ana' = T_Negativo
  /\ art_afectadas' = {}
  /\ a_evento' = "reinicio"
  /\ SinGuardarPaciente
  /\ UNCHANGED HOMUNCULO_OK
  /\ UNCHANGED <<vars_norm, vars_visita, vars_bot, vars_auth>>

NextAlta ==
  \/ EscribirNHC
  \/ set_random_nhc
  \/ EscribirNombre
  \/ CambiarClinica
  \/ MarcarArticulacion
  \/ BorrarArticulaciones
  \/ ClickGuardarPaciente
  \/ ReiniciarAlta

\* The figure is importable or not (lines 32-36); the form is empty (lines 85-88
\* and the defaults of the widgets).
InitAlta ==
  /\ HOMUNCULO_OK \in BOOLEAN
  /\ reset_alta = FALSE
  /\ FormularioVacio
  /\ a_evento = "inicio"
  /\ a_error = <<>>
  /\ a_guardar = <<NoCall, NoCall>>
  /\ a_pdata = NoCall

InitSpecAlta == NormQuieto /\ VisitaQuieta /\ BotQuieto /\ InitAlta /\ AuthQuieta

SpecAlta == InitSpecAlta /\ [][NextAlta]_vars

(***************************************************************************)
(* Claims on render_alta_paciente (SpecAlta)                               *)
(***************************************************************************)

FormularioDeAlta == <<nuevo_nhc, nuevo_nombre, historia_uveitis, val_ana, art_afectadas>>

\* C14: a click on "Guardar Paciente" with an empty NHC or an empty name is
\* rejected with an error message: guardar_paciente is not called, reset_alta is
\* not set and the form (the fields and art_afectadas) stays as it was; whenever
\* a patient is handed to guardar_paciente, its NHC and its name are not empty.
C14_AltaRechazada ==
  [][ /\ (a_evento' = "guardar" /\ (nuevo_nhc = <<>> \/ nuevo_nombre = <<>>)) =>
           /\ a_error' # <<>>
           /\ a_guardar' = <<NoCall, NoCall>>
           /\ a_pdata' = NoCall
           /\ ~reset_alta'
           /\ FormularioDeAlta' = FormularioDeAlta
      /\ a_pdata'.ok =>
           /\ a_pdata'.val.numero_historia # <<>>
           /\ a_pdata'.val.nombre # <<>> ]_vars

\* A form with an NHC, a joint marked and no name, after a click on the save
\* button that was rejected.
C14_Witness ==
  /\ a_evento = "guardar"
  /\ nuevo_nhc # <<>>
  /\ nuevo_nombre = <<>>
  /\ art_afectadas # {}
  /\ a_error = T_Falta_Nombre
  /\ a_pdata = NoCall

(***************************************************************************)
(* Claims on the branches of responder_duda_paciente (SpecBot)             *)
(***************************************************************************)

T_olvido_pinchada == <<"s","e"," ","m","e"," ","o","l","v","i","d","ó"," ","l","a"," ","p","i","n","c","h","a","d",
      "a"," ","d","e"," ","m","e","t","o","t","r","e","x","a","t","o">>

\* The question reports a forgotten dose and names methotrexate: it is the
\* phrase above, or it holds a keyword of each list and no earlier branch
\* (greeting, alarm) takes it.
ReportaOlvidoDeMetotrexato(p) ==
  \/ p = T_olvido_pinchada
  \/ /\ es_dosis_olvidada(p) /\ ContainsAny(p, olvido_metotrexato)
     /\ ~es_saludo(p) /\ ~es_urgencia(p)

\* C15: the answer to a question that reports a forgotten dose and names
\* methotrexate, "se me olvidó la pinchada de metotrexato" among them, is the
\* methotrexate missed-dose text, word for word.
C15_OlvidoMetotrexato ==
  (b_respuesta.ok /\ ReportaOlvidoDeMetotrexato(Lower(b_pregunta))) =>
    b_respuesta.val = MSG_OLVIDO_METOTREXATO

\* C16: the answer is the greeting, with the patient's name, exactly when the
\* question, stripped of the white space around it and lower-cased, is one of
\* the greeting phrases; the greeting is answered without any later branch, so
\* without a call of the guideline search.
C16_SaludoExacto ==
  b_respuesta.ok =>
    /\ b_respuesta.val = MSG_SALUDO(b_nombre) <=> es_saludo(Strip(Lower(b_pregunta)))
    /\ b_respuesta.val = MSG_SALUDO(b_nombre) => b_llamadas = <<>>

(***************************************************************************)
(* _extraer_medicaciones_del_plan as a function                            *)
(***************************************************************************)

\* Pieces of plan texts: drugs under several of their names, with and without
\* dose and frequency, in capitals, and text that names no drug.
Fragmentos ==
  { <<"M","e","t","o","t","r","e","x","a","t","o"," ","1","5"," ","m","g"," ","s","e","m","a","n",
      "a","l">>,
    <<"M","T","X">>,
    <<"m","e","t","o","t","r","e","x","a","t","e"," ","7",",","5"," ","m","g"," ","l","o","s"," ",
      "l","u","n","e","s">>,
    <<"Á","c","i","d","o"," ","F","ó","l","i","c","o"," ","5"," ","m","g"," ","d","i","a","r","i",
      "o">>,
    <<"a","c","f","o","l">>,
    <<"I","b","u","p","r","o","f","e","n","o"," ","4","0","0"," ","m","g"," ","c","a","d","a"," ",
      "8"," ","h","o","r","a","s">>,
    <<"n","a","p","r","o","x","e","n","o">>,
    <<"c","o","r","t","i","c","o","i","d","e">>,
    <<"H","u","m","i","r","a"," ","4","0"," ","m","g"," ","q","u","i","n","c","e","n","a","l">>,
    <<"a","d","a","l","i","m","u","m","a","b">>,
    <<"A","C","T","E","M","R","A">>,
    <<"E","n","b","r","e","l"," ","2","5"," ","m","g">>,
    <<"r","e","p","o","s","o">> }

\* The plan texts of the model: the empty text, one piece, two pieces joined.
T_plan_tres == <<"H","u","m","i","r","a"," ","4","0"," ","m","g"," ","q","u","i","n","c","e","n","a","l",",",
      " ","M","T","X"," ","y"," ","M","e","t","o","t","r","e","x","a","t","o"," ","1","5"," ",
      "m","g"," ","s","e","m","a","n","a","l">>

PlanesTexto ==
  { <<>>, T_plan_tres } \cup Fragmentos
    \cup {a \o <<" ","y"," ">> \o b : a \in Fragmentos, b \in Fragmentos}

InitExtraer ==
  /\ x_pc = "idle"
  /\ x_plan_texto \in PlanesTexto
  /\ x_medicaciones = NoCall

\* One call of _extraer_medicaciones_del_plan on a text.
Extraer ==
  /\ x_pc = "idle"
  /\ x_pc' = "hecho"
  /\ x_medicaciones' = _extraer_medicaciones_del_plan(PyStr(x_plan_texto))
  /\ UNCHANGED x_plan_texto
  /\ UNCHANGED <<b_pc, RAG_DISPONIBLE, vectorstore_cache, b_pregunta, b_historial, b_nombre,
                 b_cargar, b_consultar, b_respuesta, b_llamadas, b_cargas>>
  /\ UNCHANGED <<vars_norm, vars_visita, vars_alta, vars_auth>>

NextExtraer == Extraer

InitSpecExtraer ==
  /\ NormQuieto /\ VisitaQuieta /\ AltaQuieta /\ AuthQuieta
  /\ RAG_DISPONIBLE = TRUE /\ ChatNuevo /\ InitExtraer

SpecExtraer == InitSpecExtraer /\ [][NextExtraer]_vars

\* The drugs of the table, in its order, as the entries name them.
FarmacosEnOrden ==
  << <<"M","e","t","o","t","r","e","x","a","t","o">>, <<"Á","c","i","d","o"," ","F","ó","l","i","c","o">>, <<"I","b","u","p","r","o","f","e","n","o">>, <<"N","a","p","r","o","x","e","n","o">>,
     <<"P","r","e","d","n","i","s","o","n","a">>, <<"A","d","a","l","i","m","u","m","a","b">>, <<"T","o","c","i","l","i","z","u","m","a","b">>, <<"E","t","a","n","e","r","c","e","p","t">> >>

\* The entry names the n-th drug of the table.
EsDelFarmaco(entrada, n) == Contains(entrada, <<"*","*">> \o FarmacosEnOrden[n])

\* A variant of some drug occurs in the text, whatever the case of its letters.
HayVariante(texto) ==
  \E n \in 1..Len(medicamentos_info) :
    \E v \in 1..Len(medicamentos_info[n].variantes) :
      Contains(Lower(texto), medicamentos_info[n].variantes[v])

\* The entries of a result: none for None.
Entradas(resultado) ==
  IF resultado = PyNone THEN <<>> ELSE [i \in 1..Len(resultado.l) |-> resultado.l[i].s]

\* C18: the call on a plan text returns; every drug of the table has at most one
\* entry, the entries follow the order of the table, and the result is None
\* exactly when the text holds no variant of any drug.
C18_UnaPorFarmaco ==
  x_pc = "hecho" =>
    /\ x_medicaciones.ok
    /\ x_medicaciones.val = PyNone <=> ~HayVariante(x_plan_texto)
    /\ LET e == Entradas(x_medicaciones.val)
       IN  /\ \A n \in 1..Len(FarmacosEnOrden) :
                Cardinality({i \in 1..Len(e) : EsDelFarmaco(e[i], n)}) <= 1
           /\ \A i \in 1..Len(e) : \E n \in 1..Len(FarmacosEnOrden) : EsDelFarmaco(e[i], n)
           /\ \A i, j \in 1..Len(e) :
                i < j => \A n, m \in 1..Len(FarmacosEnOrden) :
                           (EsDelFarmaco(e[i], n) /\ EsDelFarmaco(e[j], m)) => n < m

\* A text with two names of one drug, after a drug that comes later in the table:
\* the call gave one entry for each drug, methotrexate first.
C18_Witness ==
  /\ x_pc = "hecho"
  /\ x_plan_texto = T_plan_tres
  /\ x_medicaciones.ok
  /\ Len(Entradas(x_medicaciones.val)) = 2
  /\ EsDelFarmaco(Entradas(x_medicaciones.val)[1], 1)
  /\ EsDelFarmaco(Entradas(x_medicaciones.val)[2], 6)

(***************************************************************************)
(* Claims on the current-medication branch (SpecBot)                       *)
(***************************************************************************)

\* The last call took the current-medication branch and returned.
EnRamaMedicacion ==
  /\ b_respuesta.ok
  /\ ~es_saludo(Lower(b_pregunta))
  /\ ~es_urgencia(Lower(b_pregunta))
  /\ ~es_dosis_olvidada(Lower(b_pregunta))
  /\ es_pregunta_medicacion(Lower(b_pregunta))

\* The text after the last marker of the course, as it stands or stripped of the
\* white space around it.
TrasMarca(curso, marca, recortado) ==
  IF recortado THEN Strip(LastAfter(curso, marca)) ELSE LastAfter(curso, marca)

\* The plan read from the course of a visit that has no plan of its own.
PlanDelCurso(curso, recortado) ==
  IF Contains(curso, <<"P","L","A","N",":">>) THEN TrasMarca(curso, <<"P","L","A","N",":">>, recortado)
  ELSE IF Contains(curso, <<"P","l","a","n",":">>) THEN TrasMarca(curso, <<"P","l","a","n",":">>, recortado)
  ELSE curso

\* The plan of a visit record: plan_tratamiento or, when it is empty, the plan
\* read from curso_clinico_generado; no plan for an entry that is no record.
PlanDeVisita(visita, recortado) ==
  IF ~IsDict(visita) THEN <<>>
  ELSE IF GetD(visita, "plan_tratamiento", PyStr(<<>>)).s # <<>>
  THEN GetD(visita, "plan_tratamiento", PyStr(<<>>)).s
  ELSE PlanDelCurso(GetD(visita, "curso_clinico_generado", PyStr(<<>>)).s, recortado)

\* The plan of the last visit of a history; no plan without a history.
PlanDeLaUltima(historial, recortado) ==
  IF historial = PyNone \/ historial = PyList(<<>>) THEN <<>>
  ELSE PlanDeVisita(historial.l[Len(historial.l)], recortado)

\* The answer for a plan and what the extractor finds in it.
RespuestaSegunMenciones(plan, menciones) ==
  IF menciones # PyNone THEN MSG_MEDICACION \o Vinetas(menciones.l) \o MSG_CALENDARIO
  ELSE MSG_PLAN \o plan

\* The answer for a plan: the no-active-plan message, the list, or the plan.
RespuestaSegunPlan(plan) ==
  IF plan = <<>> THEN MSG_SIN_PLAN
  ELSE RespuestaSegunMenciones(plan, _extraer_medicaciones_del_plan(PyStr(plan)).val)

\* C17 as stated: the answer of the current-medication branch is the one for the
\* plan of the last visit, that plan being plan_tratamiento or, when empty, the
\* text after the last "PLAN:" of the course, else after "Plan:", else the whole
\* course; earlier visits play no part.
C17_SoloUltimaVisita_literal ==
  EnRamaMedicacion => b_respuesta.val = RespuestaSegunPlan(PlanDeLaUltima(b_historial, FALSE))

\* C17, amended: the same with the text after the marker stripped of the white
\* space around it, so that a course that ends with the marker gives no plan.
C17_SoloUltimaVisita ==
  EnRamaMedicacion => b_respuesta.val = RespuestaSegunPlan(PlanDeLaUltima(b_historial, TRUE))

\* A medication question with a history whose last visit has no plan, after a
\* visit that has one: the answer is the no-active-plan message.
C17_Witness ==
  /\ EnRamaMedicacion
  /\ b_historial = PyList(<<Visita(PyStr(T_plan_mtx), PyStr(T_curso_mtx)),
                            Visita(PyStr(<<>>), PyStr(T_curso_sin_plan))>>)
  /\ b_respuesta.val = MSG_SIN_PLAN

(***************************************************************************)
(* Claims on the flat tool output (SpecNorm)                               *)
(***************************************************************************)

\* A dict with none of estado / analisis / auditoria and some flat field.
EsPlano(obj) ==
  /\ IsDict(obj)
  /\ ~HasKey(obj, "estado") /\ ~HasKey(obj, "analisis") /\ ~HasKey(obj, "auditoria")
  /\ \E k \in claves_planas : HasKey(obj, k)

\* The AIJ-relevance flag: es_aij, or es_tratamiento_aij when es_aij is absent
\* or null (PyNone when that is absent too).
Bandera(obj) ==
  IF HasKey(obj, "es_aij") /\ obj.d["es_aij"] # PyNone THEN obj.d["es_aij"]
  ELSE IF HasKey(obj, "es_tratamiento_aij") THEN obj.d["es_tratamiento_aij"]
  ELSE PyNone

\* C20: for a flat tool output limpiar_respuesta_ia returns a record with the
\* keys estado, analisis and auditoria whose estado is "Aprobada" when the flag
\* is the value true and "Alerta" for every other value of the flag: false,
\* null, absent, a text or a number.
C20_EstadoPorBandera ==
  (n_pc # "idle" /\ EsPlano(n_entrada)) =>
    /\ n_salida.ok
    /\ IsDict(n_salida.val)
    /\ HasKey(n_salida.val, "analisis") /\ HasKey(n_salida.val, "auditoria")
    /\ Get(n_salida.val, "estado") =
         (IF Bandera(n_entrada) = PyTrue THEN PyStr(S_Aprobada) ELSE PyStr(S_Alerta))

\* A flat output whose es_aij is a number that counts as true, with
\* es_tratamiento_aij true: the record says "Alerta".
C20_Witness ==
  /\ n_pc # "idle"
  /\ EsPlano(n_entrada)
  /\ Get(n_entrada, "es_aij") = PyInt(1)
  /\ Get(n_entrada, "es_tratamiento_aij") = PyTrue
  /\ n_salida.ok
  /\ Get(n_salida.val, "estado") = PyStr(S_Alerta)

(***************************************************************************)
(* Claims on what the normalizer leaves alone (SpecNorm)                   *)
(***************************************************************************)

\* The dict holds one of the keys estado, analisis, auditoria.
TieneClaveCanonica(obj) ==
  HasKey(obj, "estado") \/ HasKey(obj, "analisis") \/ HasKey(obj, "auditoria")

\* The dict holds one of the flat field names.
TieneCampoPlano(obj) == \E k \in claves_planas : HasKey(obj, k)

\* C21: a dict that holds a canonical key, flat fields beside it or not, or that
\* holds no flat field, is returned with the same keys and values; the result
\* differs from the input only for a dict with no canonical key and some flat
\* field; an estado the input holds is the estado of the result.
C21_DictSinCambio ==
  (n_pc # "idle" /\ IsDict(n_entrada)) =>
    /\ n_salida.ok
    /\ (TieneClaveCanonica(n_entrada) \/ ~TieneCampoPlano(n_entrada)) =>
         n_salida.val = n_entrada
    /\ n_salida.val # n_entrada =>
         (~TieneClaveCanonica(n_entrada) /\ TieneCampoPlano(n_entrada))
    /\ HasKey(n_entrada, "estado") =>
         Get(n_salida.val, "estado") = Get(n_entrada, "estado")

\* A record with an estado and the flat fields farmaco and es_aij came back as
\* it was.
C21_Witness ==
  /\ n_pc # "idle"
  /\ IsDict(n_entrada)
  /\ HasKey(n_entrada, "estado") /\ HasKey(n_entrada, "farmaco") /\ HasKey(n_entrada, "es_aij")
  /\ n_salida.ok
  /\ n_salida.val = n_entrada

\* The dirty text of a call that reaches the repair step: the raw attribute of
\* the agent's result, or str() of the value.
TextoSucio(respuesta_obj) ==
  IF respuesta_obj.t = "obj" /\ respuesta_obj.raw # Absent THEN respuesta_obj.raw
  ELSE PyStr(PyToStr(respuesta_obj))

\* The repair step raised, or gave neither a non-empty list nor a dict.
RepairFalla(rep) ==
  \/ ~rep.ok
  \/ ~(IsDict(rep.val) \/ (rep.val.t = "list" /\ Len(rep.val.l) > 0))

\* The text with every "**", every json fence and every bare fence taken out, in
\* that order, and the white space around it stripped.
SinMarcas(texto) ==
  Strip(Replace(Replace(Replace(texto, <<"*","*">>, <<>>), <<BT, BT, BT, "j", "s", "o", "n">>, <<>>),
                <<BT, BT, BT>>, <<>>))

\* C22: when the repair step raises or gives anything but a non-empty list or a
\* dict, limpiar_respuesta_ia returns the record {estado: "Nota del Asistente",
\* analisis: {farmaco: "Ver texto", dosis_calculada: "-"}, auditoria: {es_aij:
\* null, razon: T}}, T being the dirty text without its markers, stripped.
C22_RegistroDeEmergencia ==
  (n_pc # "idle" /\ LlegaARepair(n_entrada) /\ RepairFalla(n_rep)) =>
    /\ n_salida.ok
    /\ n_salida.val =
         Dict([ estado |-> PyStr(<<"N","o","t","a"," ","d","e","l"," ","A","s","i","s","t","e","n","t","e">>),
                analisis |-> Dict([ farmaco |-> PyStr(<<"V","e","r"," ","t","e","x","t","o">>),
                                    dosis_calculada |-> PyStr(<<"-">>) ]),
                auditoria |-> Dict([ es_aij |-> PyNone,
                                     razon |-> PyStr(SinMarcas(TextoSucio(n_entrada).s)) ]) ])

(***************************************************************************)
(* Claims on the knowledge lookup (SpecBot)                                *)
(***************************************************************************)

\* The lookup gave an answer that counts: a text of six characters or more that
\* does not hold the marker NO_CONTEXT.
RespuestaUtil(oq) ==
  /\ oq.ok
  /\ ~Contains(oq.val.s, <<"N","O","_","C","O","N","T","E","X","T">>)
  /\ Len(oq.val.s) >= 6

\* The answer to give for the outcome of the lookup.
SegunConsulta(oq) ==
  IF RespuestaUtil(oq)
  THEN <<"U+1F4DA"," ","*","*","I","n","f","o","r","m","a","c","i","ó","n"," ","g","e","n","e","r","a",
      "l",":","*","*","\n","\n">> \o oq.val.s
  ELSE MSG_FALLBACK

\* C23: in a call that reaches the lookup and returns, the answer is the final
\* fallback message when the engine is unavailable or the store handle is empty
\* (no query is made then), and when the answer of the query holds NO_CONTEXT or
\* has fewer than six characters; otherwise it is the answer of the query under
\* the general-information header.  Stated for queries that answer with a text.
C23_ConsultaOFallback ==
  ( /\ b_pc = "respondida"
    /\ LlegaAConsulta(Lower(b_pregunta))
    /\ b_respuesta.ok
    /\ b_consultar.ok => IsStr(b_consultar.val) ) =>
    /\ b_respuesta.val = SegunConsulta(b_consultar)
    /\ (~RAG_DISPONIBLE \/ ~Truthy(vectorstore_cache)) =>
         (b_consultar = NoCall /\ b_respuesta.val = MSG_FALLBACK)

\* The query answered with a text of exactly six characters and the call gave
\* it under the header.
C23_Witness ==
  /\ b_pc = "respondida"
  /\ LlegaAConsulta(Lower(b_pregunta))
  /\ b_consultar = Ret(PyStr(T_seis))
  /\ b_respuesta.ok
  /\ b_respuesta.val # MSG_FALLBACK
  /\ b_respuesta.val = SegunConsulta(b_consultar)

(***************************************************************************)
(* The dose text of the verdict card                                       *)
(***************************************************************************)

T_0_5_MG_KG == <<"0",",","5"," ","M","G","/","K","G">>
T_0_3_mg_kg == <<"0",".","3"," ","m","g","/","k","g">>
T_0_4 == <<"0",".","4">>
T_0_2 == <<"0",".","2">>
T_15_mg == <<"1","5"," ","m","g">>
T_10_mg == <<"1","0"," ","m","g">>

\* Records of the agent that carry a dose under some of the names the card
\* reads: a text with and without the unit, an empty text, a number, null.
RegistrosConDosis ==
  { Dict([ estado |-> PyStr(S_Aprobada),
           analisis |-> Dict([ dosis_mg_kg |-> a, dosis_mg_kg_detectada |-> b,
                               dosis_calculada |-> c ]),
           dosis_mg_kg |-> d, dosis_mg_kg_detectada |-> e, dosis_calculada |-> f ]) :
      a \in {Absent, PyStr(<<>>), PyStr(T_0_5), PyStr(T_0_5_MG_KG), PyInt(0)},
      b \in {Absent, PyStr(T_0_3_mg_kg)},
      c \in {Absent, PyStr(T_15_mg)},
      d \in {Absent, PyStr(T_0_4)},
      e \in {Absent, PyNone, PyInt(0), PyStr(T_0_2)},
      f \in {Absent, PyStr(T_10_mg)} }

\* The agent returns one of these records, or a flat tool output with a dose.
InitTarjeta ==
  /\ IA_DISPONIBLE = TRUE
  /\ e_agente \in { Ret(r) : r \in RegistrosConDosis }
                    \cup { Ret(Dict([ farmaco |-> PyStr(T_Metotrexato),
                                      dosis_mg_kg |-> PyStr(T_0_5),
                                      dosis_calculada |-> PyStr(T_15_mg) ])) }
  /\ e_rep = NoCall
  /\ SesionNueva

NextTarjeta == ClickValidar \/ ClickEditar

InitSpecTarjeta == NormQuieto /\ InitTarjeta /\ BotQuieto /\ AltaQuieta /\ AuthQuieta

SpecTarjeta == InitSpecTarjeta /\ [][NextTarjeta]_vars

\* The mg/kg values of the cached record in the order the claim gives, and the
\* pre-computed doses.
ValoresMgKg ==
  << Get(Get(ia_resultado_cache, "analisis"), "dosis_mg_kg"),
     Get(Get(ia_resultado_cache, "analisis"), "dosis_mg_kg_detectada"),
     Get(ia_resultado_cache, "dosis_mg_kg"),
     Get(ia_resultado_cache, "dosis_mg_kg_detectada") >>
ValoresCalculada ==
  << Get(Get(ia_resultado_cache, "analisis"), "dosis_calculada"),
     Get(ia_resultado_cache, "dosis_calculada") >>

\* The first value of the list that a test takes for true; PyNone when none is.
PrimeroNoVacio(valores) ==
  IF \E i \in 1..Len(valores) : Truthy(valores[i])
  THEN valores[CHOOSE i \in 1..Len(valores) :
                 Truthy(valores[i]) /\ \A j \in 1..(i - 1) : ~Truthy(valores[j])]
  ELSE PyNone

\* The text of a value, with " mg/kg" after it unless it names the unit.
TextoConUnidad(v) ==
  IF Contains(Lower(PyToStr(v)), S_mg_kg) THEN PyToStr(v)
  ELSE PyToStr(v) \o <<" ","m","g","/","k","g">>

T_admin == <<"a","d","m","i","n">>
T_Admin == <<"A","d","m","i","n">>
T_ana == <<"a","n","a">>
T_1234 == <<"1","2","3","4">>
T_ADMIN == <<"A","D","M","I","N">>
T_medico == <<"m","e","d","i","c","o">>
T_admin_ == <<"a","d","m","i","n"," ">>

\* What the user types in the "Usuario" and "Contraseña" inputs.
Usuarios ==
  {PyStr(<<>>), PyStr(T_admin), PyStr(T_Admin), PyStr(T_ADMIN), PyStr(T_ana), PyStr(T_medico)}
Contrasenas ==
  {PyStr(<<>>), PyStr(T_admin), PyStr(T_Admin), PyStr(T_admin_), PyStr(T_1234)}

\* The comparison of password_entered (auth.py, lines 45-48).
CredencialesValidas(usuario, contrasena) ==
  usuario = PyStr(T_admin) /\ contrasena = PyStr(T_admin)

\* st.text_input(..., key="username"): the user edits the field of the
\* rendered form; the run that follows takes the first branch again.
EscribirUsuario ==
  /\ u_pc = "espera" /\ u_formulario
  /\ \E texto \in Usuarios : texto # username /\ username' = texto
  /\ u_evento' = "usuario"
  /\ UNCHANGED <<password_correct, password, u_pc, u_formulario, u_retorno>>
  /\ UNCHANGED <<vars_norm, vars_visita, vars_bot, vars_alta>>

\* st.text_input(..., key="password").
EscribirContrasena ==
  /\ u_pc = "espera" /\ u_formulario
  /\ \E texto \in Contrasenas : texto # password /\ password' = texto
  /\ u_evento' = "contrasena"
  /\ UNCHANGED <<password_correct, username, u_pc, u_formulario, u_retorno>>
  /\ UNCHANGED <<vars_norm, vars_visita, vars_bot, vars_alta>>

\* password_entered, the on_click callback of "Entrar" (auth.py, lines 43-56).
password_entered ==
  /\ u_pc = "espera" /\ u_formulario
  /\ IF CredencialesValidas(username, password)
       THEN /\ password_correct' = PyTrue
            /\ password' = Absent
            /\ username' = Absent
       ELSE /\ password_correct' = PyFalse
            /\ UNCHANGED <<username, password>>
  /\ u_pc' = "rerun"
  /\ u_evento' = "entrar"
  /\ UNCHANGED <<u_formulario, u_retorno>>
  /\ UNCHANGED <<vars_norm, vars_visita, vars_bot, vars_alta>>

\* One run of check_password (auth.py, lines 58-106).  A run that does not
\* render the two inputs leaves the framework free to drop their values from
\* the session state or to keep them.
check_password ==
  /\ u_pc = "rerun"
  /\ u_pc' = "espera"
  /\ IF password_correct = Absent
       THEN /\ u_formulario' = TRUE
            /\ u_retorno' = FALSE
            /\ username' = PyStr(<<>>)
            /\ password' = PyStr(<<>>)
       ELSE /\ u_formulario' = FALSE
            /\ u_retorno' = Truthy(password_correct)
            /\ \/ UNCHANGED <<username, password>>
               \/ username' = Absent /\ password' = Absent
  /\ UNCHANGED <<password_correct, u_evento>>
  /\ UNCHANGED <<vars_norm, vars_visita, vars_bot, vars_alta>>

\* cerrar_sesion (auth.py, lines 109-118), offered to the user who is logged
\* in: it drops password_correct and asks for a new run.
cerrar_sesion ==
  /\ u_pc = "espera" /\ u_retorno
  /\ password_correct' = Absent
  /\ u_pc' = "rerun"
  /\ u_evento' = "salir"
  /\ UNCHANGED <<username, password, u_formulario, u_retorno>>
  /\ UNCHANGED <<vars_norm, vars_visita, vars_bot, vars_alta>>

NextAuth ==
  \/ EscribirUsuario
  \/ EscribirContrasena
  \/ password_entered
  \/ check_password
  \/ cerrar_sesion

InitSpecAuth == NormQuieto /\ VisitaQuieta /\ BotQuieto /\ AltaQuieta /\ PrimeraVisita

SpecAuth == InitSpecAuth /\ [][NextAuth]_vars

\* C25: once password_entered has compared the credentials, right or wrong,
\* the session state holds neither the password nor the user name.
C25_SinCredenciales ==
  (u_pc = "rerun" /\ u_evento = "entrar") =>
    (password = Absent /\ username = Absent)

\* C29: after a failed attempt the page offers the login form again, which is
\* what lets the user enter admin / admin and be let in during the same session.
C29_FormularioTrasFallo ==
  (u_pc = "espera" /\ password_correct = PyFalse) =>
    (u_formulario /\ ENABLED password_entered)

(***************************************************************************)
(* The derived estado against the verdict of the card (SpecNorm)           *)
(***************************************************************************)

\* The flat output carries no decision and no severidad.
SinDecision(obj) == ~HasKey(obj, "decision") /\ ~HasKey(obj, "severidad")

\* C30: for a flat tool output without decision / severidad, whatever its
\* es_aij and es_tratamiento_aij, the estado that limpiar_respuesta_ia derives
\* is "Aprobada" exactly when the verdict of the card on the reshaped record is
\* Aprobada.
C30_EstadoSegunVeredicto ==
  ( /\ n_pc # "idle" /\ EsPlano(n_entrada) /\ SinDecision(n_entrada)
    /\ n_salida.ok /\ Veredicto(n_salida.val).ok ) =>
    ( Get(n_salida.val, "estado") = PyStr(S_Aprobada)
        <=> Veredicto(n_salida.val).val = S_Aprobada )

(***************************************************************************)
(* The visit from its opening to its end (SpecEfectos)                      *)
(***************************************************************************)

\* C26: the plan_tratamiento of the saved visit is the plan text that the last
\* Validate click handed to the agent, the click whose result is saved as
\* auditoria_ia.
C26_PlanValidado ==
  (v_visita.ok /\ v_plan.ok) => v_visita.val.plan_tratamiento = v_plan.val

\* C27: the efectos_adversos of the saved visit are the entries appended during
\* that visit and no other, and a visit opened after a save or a cancel starts
\* with an empty list of adverse effects.
C27_EfectosSoloDeLaVisita ==
  /\ v_visita.ok =>
       v_visita.val.efectos_adversos =
         [i \in 1..Len(h_anadidos) |-> nuevo_efecto(h_anadidos[i])]
  /\ v_evento = "abrir" => efectos_visita = <<>>

\* C28: a visit opened after the previous one ended, by a save or by a cancel,
\* is at step 1 with empty temp_visita_data, ia_validacion_hecha false and no
\* cached result.
C28_VisitaLimpia ==
  v_evento = "abrir" =>
    /\ visita_step = 1
    /\ temp_visita_data = DatosVacios
    /\ ia_validacion_hecha = FALSE
    /\ ia_resultado_cache = PyNone

=============================================================================
